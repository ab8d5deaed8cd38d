----------------------------- MODULE FolderTree -----------------------------
(****************************************************************************)
(* The folder tree of one account: an adjacency list (folders.parent_id)    *)
(* that create, move and delete requests read and write row by row          *)
(* (folders/service.py), and the files in it as far as folders matter       *)
(* (files/service.py upload_file, move_file, soft_delete_file).             *)
(*                                                                          *)
(* No request holds a lock or a transaction: each looks at rows one by one  *)
(* and then writes by id, and others run between its calls.  A client is    *)
(* whoever sends one request after the other.  A request whose database     *)
(* call fails simply takes no further step, except a delete, which ends.    *)
(****************************************************************************)
EXTENDS SequencesExt

CONSTANTS
    Folders,        \* ids of folders rows
    Files,          \* ids of files rows
    Root,           \* the top level: parent_id or folder_id is null
    None,           \* no row, or no file
    Clients,        \* the account's clients
    Movers          \* those of them that move folders

Places == Folders \union {Root}

ASSUME ConstantsAssumption ==
    /\ IsFiniteSet(Folders)
    /\ Root \notin Folders /\ None \notin Places \union Files
    /\ Movers \subseteq Clients

VARIABLES
    parent,     \* folders.parent_id, None before the insert
    deleted,    \* folders whose deleted_at is set
    where,      \* files.folder_id
    status,     \* "none" until the upload commits, "committed", "deleting"
    req,        \* what each client's request has found out and does next
    late,       \* files put into a folder after its files were listed (history)
    raced       \* whether a cascade was cut short or met a write (history)

tree == <<parent, deleted, where, status>>
vars == <<tree, req, late, raced>>

(* The folders that have a row, deleted or not.                             *)
Rows == {f \in Folders : parent[f] # None}
Parents == Rows \union {Root}

Idle == [at |-> "idle"]

TargetRequest ==
    {[at |-> "target", folder |-> f, to |-> to, cur |-> to, seen |-> {}] :
        f \in Rows, to \in Folders}
MoveRequest == [at : {"walk", "move"}, folder : Rows, to : Parents,
                cur : Parents, seen : SUBSET Rows]
CreateRequest == [at : {"insert"}, to : Parents]
PlaceRequest == [at : {"place"}, file : Files, to : Parents]
DeleteRequest == [at : {"collect", "sweep", "files", "mark"},
                  nodes : Seq(Rows) \ {<<>>}, scanned : Nat,
                  files : SUBSET Files, file : Files \union {None}]

(* Rows are never taken away: what is referenced is there, and what a       *)
(* request has looked up stays there until it writes.                       *)
TypeOK ==
    /\ parent \in [Folders -> Places \union {None}]
    /\ \A f \in Rows : parent[f] \in Parents
    /\ deleted \subseteq Rows
    /\ where \in [Files -> Parents]
    /\ status \in [Files -> {"none", "committed", "deleting"}]
    /\ req \in [Clients -> {Idle} \union TargetRequest \union MoveRequest
                    \union CreateRequest \union PlaceRequest \union DeleteRequest]
    /\ late \subseteq Files
    /\ raced \in BOOLEAN

Cyclic(nodes) == nodes # {} /\ \A f \in nodes : parent[f] \in nodes

(* No folder is among its own ancestors: no set of folders is closed under  *)
(* parent.  move_folder is to reject what would break this (166-168).       *)
Acyclic == \A nodes \in SUBSET Folders : ~Cyclic(nodes)

(* Any tree that earlier requests have left, nothing being under way.       *)
Init ==
    /\ parent \in [Folders -> Places \union {None}]
    /\ \A f \in Rows : parent[f] \in Parents
    /\ Acyclic
    /\ deleted = {}
    /\ where \in [Files -> Parents]
    /\ status \in [Files -> {"none", "committed"}]
    /\ req = [c \in Clients |-> Idle]
    /\ late = {}
    /\ raced = FALSE

(* Mutant: a missing row passes.                                            *)
Live_NoRow(f) == f \notin deleted

(* _load_owned_folder and _assert_owned_folder: anything but a live row is  *)
(* answered not_found.                                                      *)
Live(f) == parent[f] # None /\ f \notin deleted

Committed(x) == status[x] = "committed"

(****************************************************************************)
(* Requests.  Start is the first look at a row, Goto what follows it, End   *)
(* the answer.                                                              *)
(****************************************************************************)

At(c, step) == req[c].at = step
Start(c, request) == At(c, "idle") /\ req' = [req EXCEPT ![c] = request]
Goto(c, request) == req' = [req EXCEPT ![c] = request]
End(c) == Goto(c, Idle)

Deleting(c) == req[c].at \in {"collect", "sweep", "files", "mark"}

(* A write that meets a running cascade or a deleted folder.                *)
Races(to) == to \in deleted \/ \E c \in Clients : Deleting(c)

(****************************************************************************)
(* move_folder.                                                             *)
(****************************************************************************)

MoveLoad(c) ==
    /\ c \in Movers
    /\ \E f \in Folders, to \in Places :
        /\ Live(f) /\ to # f
        /\ Start(c, [at |-> IF to = Root THEN "move" ELSE "target",
                     folder |-> f, to |-> to, cur |-> to, seen |-> {}])
    /\ UNCHANGED <<tree, late, raced>>

MoveTarget(c) ==
    /\ At(c, "target")
    /\ IF Live(req[c].to) THEN Goto(c, [req[c] EXCEPT !.at = "walk"]) ELSE End(c)
    /\ UNCHANGED <<tree, late, raced>>

(* _would_create_cycle, one ancestor per query, deleted ones included.      *)
MoveAscend(c) ==
    /\ At(c, "walk")
    /\ req[c].cur \in Folders \ (req[c].seen \union {req[c].folder})
    /\ Goto(c, [req[c] EXCEPT !.cur = parent[req[c].cur],
                              !.seen = @ \union {req[c].cur}])
    /\ UNCHANGED <<tree, late, raced>>

(* The folder is among the ancestors of its new parent.                     *)
MoveReject(c) ==
    /\ At(c, "walk")
    /\ req[c].cur = req[c].folder
    /\ End(c)
    /\ UNCHANGED <<tree, late, raced>>

(* Mutant: the walk ends at a deleted ancestor.                             *)
MoveAccept_AtDeleted(c) ==
    /\ At(c, "walk")
    /\ req[c].cur \in req[c].seen \union deleted \union {Root}
    /\ Goto(c, [req[c] EXCEPT !.at = "move"])
    /\ UNCHANGED <<tree, late, raced>>

(* The walk came to the top, or to an ancestor it has seen.                 *)
MoveAccept(c) ==
    /\ At(c, "walk")
    /\ req[c].cur \in req[c].seen \union {Root}
    /\ Goto(c, [req[c] EXCEPT !.at = "move"])
    /\ UNCHANGED <<tree, late, raced>>

(* folders_repo.move, by id.                                                *)
MoveWrite(c) ==
    /\ At(c, "move")
    /\ parent' = [parent EXCEPT ![req[c].folder] = req[c].to]
    /\ raced' = (raced \/ Races(req[c].to) \/ req[c].folder \in deleted)
    /\ End(c)
    /\ UNCHANGED <<deleted, where, status, late>>

(****************************************************************************)
(* create_folder.                                                           *)
(****************************************************************************)

CreateLoad(c) ==
    /\ \E to \in Places :
        /\ to # Root => Live(to)
        /\ Start(c, [at |-> "insert", to |-> to])
    /\ UNCHANGED <<tree, late, raced>>

CreateInsert(c) ==
    /\ At(c, "insert")
    /\ \E f \in Folders :
        /\ parent[f] = None
        /\ parent' = [parent EXCEPT ![f] = req[c].to]
    /\ raced' = (raced \/ Races(req[c].to))
    /\ End(c)
    /\ UNCHANGED <<deleted, where, status, late>>

(****************************************************************************)
(* upload_file and move_file: the folder is checked first; the file appears *)
(* in it when the upload commits or the move is written.                    *)
(****************************************************************************)

Busy(x) == \E c \in Clients : At(c, "place") /\ req[c].file = x

PlaceLoad(c) ==
    /\ \E x \in Files, to \in Places :
        /\ Committed(x) \/ (status[x] = "none" /\ ~Busy(x))
        /\ to # Root => Live(to)
        /\ Start(c, [at |-> "place", file |-> x, to |-> to])
    /\ UNCHANGED <<tree, late, raced>>

(* The folder a cascade has come to.                                        *)
Node(c) == Head(req[c].nodes)

(* Some cascade has listed the folder's files and not yet marked it.        *)
Emptying(f) == \E c \in Clients : req[c].at \in {"files", "mark"} /\ Node(c) = f

PlaceWrite(c) ==
    /\ At(c, "place")
    /\ LET x == req[c].file
           to == req[c].to
       IN  /\ where' = [where EXCEPT ![x] = to]
           /\ status' = [status EXCEPT ![x] = IF @ = "none" THEN "committed" ELSE @]
           /\ late' = IF to \in deleted \/ Emptying(to)
                      THEN late \union {x} ELSE late \ {x}
           /\ raced' = (raced \/ Races(to))
    /\ End(c)
    /\ UNCHANGED <<parent, deleted>>

(****************************************************************************)
(* soft_delete_folder.                                                      *)
(****************************************************************************)

DeleteLoad(c) ==
    /\ \E f \in Folders :
        /\ Live(f)
        /\ Start(c, [at |-> "collect", nodes |-> <<f>>, scanned |-> 0,
                     files |-> {}, file |-> None])
    /\ UNCHANGED <<tree, late, raced>>

(* Mutant: the queue is not fed with what was found.                        *)
DeleteCollect_ChildrenOnly(c) ==
    /\ At(c, "collect")
    /\ req[c].scanned < Len(req[c].nodes)
    /\ LET nodes == req[c].nodes
           next == nodes[req[c].scanned + 1]
           children == {f \in Folders : parent[f] = next /\ f \notin deleted}
       IN  \E found \in SetToSeqs(children \ ToSet(nodes)) :
             Goto(c, [req[c] EXCEPT !.nodes = nodes \o found,
                                    !.scanned = Len(nodes \o found)])
    /\ UNCHANGED <<tree, late, raced>>

(* _collect_subtree: the live children of the next folder of the queue, in  *)
(* the order of their names; what it has seen already is left out.          *)
DeleteCollect(c) ==
    /\ At(c, "collect")
    /\ req[c].scanned < Len(req[c].nodes)
    /\ LET nodes == req[c].nodes
           next == nodes[req[c].scanned + 1]
           children == {f \in Folders : parent[f] = next /\ f \notin deleted}
       IN  \E found \in SetToSeqs(children \ ToSet(nodes)) :
             Goto(c, [req[c] EXCEPT !.nodes = nodes \o found, !.scanned = @ + 1])
    /\ UNCHANGED <<tree, late, raced>>

(* With the subtree collected: list_in_folder of the next folder in it.     *)
DeleteList(c) ==
    /\ \/ At(c, "collect") /\ req[c].scanned = Len(req[c].nodes)
       \/ At(c, "sweep")
    /\ Goto(c, [req[c] EXCEPT !.at = "files", !.scanned = 0,
                   !.files = {x \in Files : Committed(x) /\ where[x] = Node(c)}])
    /\ UNCHANGED <<tree, late, raced>>

(* soft_delete_file loads the next file of the list,                        *)
DeleteFileLoad(c) ==
    /\ At(c, "files")
    /\ \E x \in req[c].files :
        /\ Committed(x)
        /\ Goto(c, [req[c] EXCEPT !.at = "mark", !.file = x, !.files = @ \ {x}])
    /\ UNCHANGED <<tree, late, raced>>

(* and marks it, by id.                                                     *)
DeleteFileMark(c) ==
    /\ At(c, "mark")
    /\ status' = [status EXCEPT ![req[c].file] = "deleting"]
    /\ Goto(c, [req[c] EXCEPT !.at = "files", !.file = None])
    /\ UNCHANGED <<parent, deleted, where, late, raced>>

(* The file was deleted meanwhile: not_found ends the whole cascade.        *)
DeleteNotFound(c) ==
    /\ At(c, "files")
    /\ \E x \in req[c].files : ~Committed(x)
    /\ End(c)
    /\ raced' = TRUE
    /\ UNCHANGED <<tree, late>>

(* Mutant: the folder is marked before its files are handed off.            *)
DeleteStamp_TooEarly(c) ==
    /\ At(c, "files")
    /\ deleted' = deleted \union {Node(c)}
    /\ IF Len(req[c].nodes) = 1 THEN End(c)
       ELSE Goto(c, [req[c] EXCEPT !.at = "sweep", !.nodes = Tail(@)])
    /\ UNCHANGED <<parent, where, status, late, raced>>

(* Its files handed off, the folder itself is marked.                       *)
DeleteStamp(c) ==
    /\ At(c, "files")
    /\ req[c].files = {}
    /\ deleted' = deleted \union {Node(c)}
    /\ IF Len(req[c].nodes) = 1 THEN End(c)
       ELSE Goto(c, [req[c] EXCEPT !.at = "sweep", !.nodes = Tail(@)])
    /\ UNCHANGED <<parent, where, status, late, raced>>

(* A database error, or the death of the process.                           *)
DeleteFails(c) ==
    /\ Deleting(c)
    /\ End(c)
    /\ raced' = TRUE
    /\ UNCHANGED <<tree, late>>

(* Meanwhile a file may be deleted on its own (Lifecycle.tla has the calls  *)
(* that takes).                                                             *)
RemoveFile(x) ==
    /\ Committed(x)
    /\ status' = [status EXCEPT ![x] = "deleting"]
    /\ UNCHANGED <<parent, deleted, where, req, late, raced>>

MoveStep(c) ==
    MoveLoad(c) \/ MoveTarget(c) \/ MoveAscend(c) \/ MoveReject(c)
        \/ MoveAccept(c) \/ MoveWrite(c)

DeleteStep(c) ==
    DeleteLoad(c) \/ DeleteCollect(c) \/ DeleteList(c) \/ DeleteFileLoad(c)
        \/ DeleteFileMark(c) \/ DeleteNotFound(c) \/ DeleteStamp(c) \/ DeleteFails(c)

Next ==
    \/ \E c \in Clients :
          MoveStep(c) \/ CreateLoad(c) \/ CreateInsert(c)
              \/ PlaceLoad(c) \/ PlaceWrite(c) \/ DeleteStep(c)
    \/ \E x \in Files : RemoveFile(x)

Spec == Init /\ [][Next]_vars

-----------------------------------------------------------------------------
(****************************************************************************)
(* Properties (Acyclic is above).                                           *)
(****************************************************************************)

(* Files are handed off before their folder is marked, so that none is left *)
(* behind in it even by a cascade that is cut short (folders/service.py     *)
(* 226-230): a file in a deleted folder came after the folder's files were  *)
(* listed, by a request that had found the folder alive.                    *)
StrandedOnlyLate ==
    \A x \in Files : Committed(x) /\ where[x] \in deleted => x \in late

(* When no cascade was cut short and no write met one, nothing live is left *)
(* under a deleted folder once they have ended, however they overlapped.    *)
CascadesComplete ==
    ~raced /\ (\A c \in Clients : ~Deleting(c)) =>
        /\ \A f \in Folders : Live(f) => parent[f] \notin deleted
        /\ \A x \in Files : Committed(x) => where[x] \notin deleted
=============================================================================
