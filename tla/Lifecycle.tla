------------------------------ MODULE Lifecycle ------------------------------
(****************************************************************************)
(* The life of a file's bytes: an upload request that stores the chunks one *)
(* by one and then commits them (files/service.py upload_file,              *)
(* storage/upload.py store_upload), soft-delete requests (files/service.py  *)
(* soft_delete_file), and the two cleanup jobs (jobs/service.py) that       *)
(* delete Telegram messages and rows.                                       *)
(*                                                                          *)
(* Every database, Redis or Telegram call is one request of its own: there  *)
(* is no transaction around a handler and the event loop may run any other  *)
(* task at each await.  So there is one action per call, and what a handler *)
(* read earlier may be stale when it acts on it.                            *)
(*                                                                          *)
(* The quota calls of the two requests (check_can_upload before the insert, *)
(* add_usage after the commit, subtract_usage after the mark) neither read  *)
(* nor write anything here; Quota.tla models them.                          *)
(*                                                                          *)
(* A Telegram message and the chunk row that records it are both named by   *)
(* the file and the chunk's index: an upload never sends a chunk twice.     *)
(****************************************************************************)
EXTENDS Integers, FiniteSets

CONSTANTS
    Files,          \* ids of files rows; an id is never used twice
    NoFile,         \* a job run that is working on no file
    MaxChunks,      \* bound on the chunks of one file
    ChunkCount,     \* the number of chunks each file is split into
    Requests,       \* the soft-delete requests one file may receive
    Jobs,           \* scheduled job runs that may overlap
    Kind,           \* what each of them is: "sweep" or "deferred"
    BatchSize,      \* files one run handles (DEFAULT_BATCH_SIZE, 50 in the code)
    Faults          \* the faults that may occur, a subset of FaultKinds

(* The faults an instance may admit:                                        *)
(*   lostReply  Telegram posts a chunk but the reply never arrives          *)
(*   insert     the insert of a chunk row fails                             *)
(*   crash      the process dies and every request and job run with it      *)
(*   abort      a job run raises (Redis or database unreachable)            *)
(*   drop       a run ends between taking a retry descriptor off the queue  *)
(*              and having replayed it or put it back                       *)
(*   refuse     Telegram refuses for good to delete a message it still has  *)
(*   slow       an upload may still be running DEFAULT_ORPHAN_AGE (24 h)    *)
(*              after its row was created                                   *)
FaultKinds ==
    {"lostReply", "insert", "crash", "abort", "drop", "refuse", "slow"}

Index == 0 .. (MaxChunks - 1)

ASSUME ConstantsAssumption ==
    /\ NoFile \notin Files
    /\ MaxChunks \in Nat
    /\ ChunkCount \in [Files -> 0 .. MaxChunks]
    /\ Kind \in [Jobs -> {"sweep", "deferred"}]
    /\ BatchSize \in Nat \ {0}
    /\ Faults \subseteq FaultKinds

VARIABLES
    status,     \* files.status, or "none" before the insert, "gone" after the delete
    aged,       \* files whose created_at is before the sweep's cutoff
    rows,       \* chunks.status per chunk row, "none" where there is no row
    msgs,       \* the chunk messages in the Telegram channels
    pc,         \* what each upload request does next
    sent,       \* the chunk_index of its next piece
    del,        \* where each soft-delete request is
    batch,      \* files a job run has still to clean: the rows it found, minus those done
    target,     \* the file it is cleaning now
    todo,       \* chunks of that file it has yet to delete, as it listed them
    owed,       \* messages the retry queue holds a delete descriptor for
    dead        \* messages a descriptor of which went to the dead-letter list

fileVars  == <<status, aged, rows, msgs>>
uploadVars == <<pc, sent>>
jobVars   == <<batch, target, todo>>
queueVars == <<owed, dead>>
vars == <<fileVars, uploadVars, del, jobVars, queueVars>>

Statuses == {"none", "pending", "committed", "deleting", "gone"}
UploadSteps == {"idle", "stream", "record", "commit", "done", "failed"}

TypeOK ==
    /\ status \in [Files -> Statuses]
    /\ aged \subseteq Files
    /\ rows \in [Files -> [Index -> {"none", "pending", "committed"}]]
    /\ msgs \in [Files -> SUBSET Index]
    /\ pc \in [Files -> UploadSteps]
    /\ sent \in [Files -> 0 .. MaxChunks]
    /\ del \in [Files -> [Requests -> {"idle", "mark", "done"}]]
    /\ batch \in [Jobs -> SUBSET Files]
    /\ target \in [Jobs -> Files \union {NoFile}]
    /\ todo \in [Jobs -> SUBSET Index]
    /\ owed \in [Files -> SUBSET Index]
    /\ dead \in [Files -> SUBSET Index]

Init ==
    /\ status = [f \in Files |-> "none"]
    /\ aged = {}
    /\ rows = [f \in Files |-> [i \in Index |-> "none"]]
    /\ msgs = [f \in Files |-> {}]
    /\ pc = [f \in Files |-> "idle"]
    /\ sent = [f \in Files |-> 0]
    /\ del = [f \in Files |-> [r \in Requests |-> "idle"]]
    /\ batch = [j \in Jobs |-> {}]
    /\ target = [j \in Jobs |-> NoFile]
    /\ todo = [j \in Jobs |-> {}]
    /\ owed = [f \in Files |-> {}]
    /\ dead = [f \in Files |-> {}]

RowExists(f) == status[f] \in {"pending", "committed", "deleting"}

Recorded(f) == {i \in Index : rows[f][i] # "none"}

Goto(f, step) == pc' = [pc EXCEPT ![f] = step]

(****************************************************************************)
(* The upload request.                                                      *)
(****************************************************************************)

(* The upload is still running code that may touch its rows or messages.    *)
Uploading(f) == pc[f] \in {"stream", "record", "commit"}

(* Name, folder and quota were accepted (a rejected upload changes nothing) *)
(* and the pending row is inserted.                                         *)
UploadInsert(f) ==
    /\ pc[f] = "idle"
    /\ status' = [status EXCEPT ![f] = "pending"]
    /\ Goto(f, "stream")
    /\ UNCHANGED <<aged, rows, msgs, sent, del, jobVars, queueVars>>

(* The next piece is posted and Telegram's reply arrives.                   *)
UploadSend(f) ==
    /\ pc[f] = "stream"
    /\ sent[f] < ChunkCount[f]
    /\ msgs' = [msgs EXCEPT ![f] = @ \union {sent[f]}]
    /\ Goto(f, "record")
    /\ UNCHANGED <<status, aged, rows, sent, del, jobVars, queueVars>>

(* The chunk row is inserted; with its files row gone the foreign key       *)
(* rejects it and the upload ends with the error.                           *)
UploadRecord(f) ==
    /\ pc[f] = "record"
    /\ IF RowExists(f)
       THEN /\ rows' = [rows EXCEPT ![f][sent[f]] = "pending"]
            /\ sent' = [sent EXCEPT ![f] = @ + 1]
            /\ Goto(f, "stream")
       ELSE Goto(f, "failed") /\ UNCHANGED <<rows, sent>>
    /\ UNCHANGED <<status, aged, msgs, del, jobVars, queueVars>>

(* Mutant: the commit does not wait for the last piece.                     *)
UploadCommitChunks_Early(f) ==
    /\ pc[f] = "stream"
    /\ sent[f] + 1 >= ChunkCount[f]
    /\ rows' = [rows EXCEPT ![f] =
                    [i \in Index |-> IF @[i] = "none" THEN "none" ELSE "committed"]]
    /\ Goto(f, "commit")
    /\ UNCHANGED <<status, aged, msgs, sent, del, jobVars, queueVars>>

(* All pieces have landed: mark_all_committed flips the chunk rows there    *)
(* are, the first half of the commit.                                       *)
UploadCommitChunks(f) ==
    /\ pc[f] = "stream"
    /\ sent[f] = ChunkCount[f]
    /\ rows' = [rows EXCEPT ![f] =
                    [i \in Index |-> IF @[i] = "none" THEN "none" ELSE "committed"]]
    /\ Goto(f, "commit")
    /\ UNCHANGED <<status, aged, msgs, sent, del, jobVars, queueVars>>

(* mark_committed updates the row by id, whatever its status; no row left   *)
(* is the internal error "File row disappeared during commit".              *)
UploadCommitFile(f) ==
    /\ pc[f] = "commit"
    /\ IF RowExists(f)
       THEN status' = [status EXCEPT ![f] = "committed"] /\ Goto(f, "done")
       ELSE Goto(f, "failed") /\ UNCHANGED status
    /\ UNCHANGED <<aged, rows, msgs, sent, del, jobVars, queueVars>>

(* The client disconnects, a send is refused, or a commit call raises: the  *)
(* exception ends the request and nothing is rolled back.                   *)
UploadFails(f) ==
    /\ pc[f] \in {"stream", "commit"}
    /\ Goto(f, "failed")
    /\ UNCHANGED <<fileVars, sent, del, jobVars, queueVars>>

(* The send raises although the chunk was posted.                           *)
SendReplyLost(f) ==
    /\ "lostReply" \in Faults
    /\ pc[f] = "stream"
    /\ sent[f] < ChunkCount[f]
    /\ msgs' = [msgs EXCEPT ![f] = @ \union {sent[f]}]
    /\ Goto(f, "failed")
    /\ UNCHANGED <<status, aged, rows, sent, del, jobVars, queueVars>>

(* The insert of the chunk row raises after the chunk was posted.           *)
RecordFails(f) ==
    /\ "insert" \in Faults
    /\ pc[f] = "record"
    /\ Goto(f, "failed")
    /\ UNCHANGED <<fileVars, sent, del, jobVars, queueVars>>

(****************************************************************************)
(* A soft-delete request.                                                   *)
(****************************************************************************)

Step(f, r, to) == del' = [del EXCEPT ![f][r] = to]

(* The row is loaded; any status but committed is answered not_found.       *)
DeleteLoad(f, r) ==
    /\ del[f][r] = "idle"
    /\ status[f] = "committed"
    /\ Step(f, r, "mark")
    /\ UNCHANGED <<fileVars, uploadVars, jobVars, queueVars>>

(* mark_deleting updates the row by id, whatever its status is by now, and  *)
(* soft_delete_file does not look at what it returns.  The enqueuer that    *)
(* ends the request only logs, the scheduled job being the one that acts.   *)
DeleteMark(f, r) ==
    /\ del[f][r] = "mark"
    /\ status' = [status EXCEPT ![f] = IF RowExists(f) THEN "deleting" ELSE @]
    /\ Step(f, r, "done")
    /\ UNCHANGED <<aged, rows, msgs, uploadVars, jobVars, queueVars>>

(* A database error ends the request before the update.                     *)
DeleteFails(f, r) ==
    /\ del[f][r] = "mark"
    /\ Step(f, r, "done")
    /\ UNCHANGED <<fileVars, uploadVars, jobVars, queueVars>>

(****************************************************************************)
(* A cleanup job run.  process_retries, which opens it, is seen here only   *)
(* through what it does to the messages the queue owes (below).             *)
(****************************************************************************)

(* created_at falls behind the cutoff now() - DEFAULT_ORPHAN_AGE.           *)
Age(f) ==
    /\ RowExists(f)
    /\ f \notin aged
    /\ Uploading(f) => "slow" \in Faults
    /\ aged' = aged \union {f}
    /\ UNCHANGED <<status, rows, msgs, uploadVars, del, jobVars, queueVars>>

(* Mutants of the query: the sweep does not filter by age, or misses an     *)
(* upload that failed before its first chunk.                               *)
Candidates_AnyAge(kind) ==
    {f \in Files : status[f] = IF kind = "sweep" THEN "pending" ELSE "deleting"}

Candidates_WithChunks(kind) ==
    IF kind = "sweep"
    THEN {f \in aged : status[f] = "pending" /\ Recorded(f) # {}}
    ELSE {f \in Files : status[f] = "deleting"}

(* What a run's query returns.                                              *)
Candidates(kind) ==
    IF kind = "sweep"
    THEN {f \in aged : status[f] = "pending"}
    ELSE {f \in Files : status[f] = "deleting"}

(* Mutant: the batch is cut one short.                                      *)
JobFind_ShortBatch(j) ==
    /\ batch[j] = {} /\ target[j] = NoFile
    /\ \E found \in SUBSET Candidates(Kind[j]) :
        /\ found # {}
        /\ Cardinality(found) < BatchSize
        /\ batch' = [batch EXCEPT ![j] = found]
    /\ UNCHANGED <<fileVars, uploadVars, del, target, todo, queueVars>>

(* The one query of a run; a run that finds nothing changes nothing.  The   *)
(* files beyond the batch wait for the next run.                            *)
JobFind(j) ==
    /\ batch[j] = {} /\ target[j] = NoFile
    /\ \E found \in SUBSET Candidates(Kind[j]) :
        /\ found # {}
        /\ Cardinality(found) <= BatchSize
        /\ found = Candidates(Kind[j]) \/ Cardinality(found) = BatchSize
        /\ batch' = [batch EXCEPT ![j] = found]
    /\ UNCHANGED <<fileVars, uploadVars, del, target, todo, queueVars>>

(* list_for_file: the run works from this snapshot of the chunk rows.       *)
JobList(j, f) ==
    /\ f \in batch[j]
    /\ target[j] = NoFile
    /\ target' = [target EXCEPT ![j] = f]
    /\ todo' = [todo EXCEPT ![j] = Recorded(f)]
    /\ batch' = [batch EXCEPT ![j] = @ \ {f}]
    /\ UNCHANGED <<fileVars, uploadVars, del, queueVars>>

(* The next chunk of the snapshot, in chunk_index order.                    *)
NextToDelete(j, i) ==
    /\ target[j] # NoFile
    /\ i \in todo[j]
    /\ \A k \in todo[j] : i <= k

Handled(j, i) == todo' = [todo EXCEPT ![j] = @ \ {i}]

(* Telegram deletes the message.                                            *)
JobDeleteMessage(j, i) ==
    /\ NextToDelete(j, i)
    /\ i \in msgs[target[j]]
    /\ msgs' = [msgs EXCEPT ![target[j]] = @ \ {i}]
    /\ Handled(j, i)
    /\ UNCHANGED <<status, aged, rows, uploadVars, del, batch, target, queueVars>>

(* Mutant: the failed delete is only logged.                                *)
JobDeferMessage_LogOnly(j, i) ==
    /\ NextToDelete(j, i)
    /\ Handled(j, i)
    /\ UNCHANGED <<fileVars, uploadVars, del, batch, target, queueVars>>

(* A transient failure, before or after Telegram acted: a descriptor of the *)
(* message goes to the retry queue.                                         *)
JobDeferMessage(j, i) ==
    /\ NextToDelete(j, i)
    /\ \/ UNCHANGED msgs
       \/ msgs' = [msgs EXCEPT ![target[j]] = @ \ {i}]
    /\ owed' = [owed EXCEPT ![target[j]] = @ \union {i}]
    /\ Handled(j, i)
    /\ UNCHANGED <<status, aged, rows, uploadVars, del, batch, target, dead>>

(* A permanent failure is taken as done: the message is already gone, or    *)
(* Telegram refuses for good.                                               *)
JobSkipMessage(j, i) ==
    /\ NextToDelete(j, i)
    /\ i \notin msgs[target[j]] \/ "refuse" \in Faults
    /\ Handled(j, i)
    /\ UNCHANGED <<fileVars, uploadVars, del, batch, target, queueVars>>

(* delete_row by id, whatever the row's status is by now; its chunk rows    *)
(* cascade.                                                                 *)
JobDeleteRow(j) ==
    /\ target[j] # NoFile
    /\ todo[j] = {}
    /\ status' = [status EXCEPT ![target[j]] = "gone"]
    /\ rows' = [rows EXCEPT ![target[j]] = [i \in Index |-> "none"]]
    /\ target' = [target EXCEPT ![j] = NoFile]
    /\ UNCHANGED <<aged, msgs, uploadVars, del, batch, todo, queueVars>>

(* An error the cleanup does not catch ends the run; QStash starts another. *)
JobAbort(j) ==
    /\ "abort" \in Faults
    /\ batch[j] # {} \/ target[j] # NoFile
    /\ batch' = [batch EXCEPT ![j] = {}]
    /\ target' = [target EXCEPT ![j] = NoFile]
    /\ todo' = [todo EXCEPT ![j] = {}]
    /\ UNCHANGED <<fileVars, uploadVars, del, queueVars>>

(****************************************************************************)
(* The retry queue as the lifecycle sees it: it owes a message as long as   *)
(* it holds at least one descriptor of it.  RetryQueue.tla is the detail;   *)
(* both implement DeferredDeletes.tla.                                      *)
(****************************************************************************)

(* A replay deletes the message; another descriptor of it may remain.       *)
RetryDelivers(f, i) ==
    /\ i \in owed[f]
    /\ msgs' = [msgs EXCEPT ![f] = @ \ {i}]
    /\ \/ owed' = [owed EXCEPT ![f] = @ \ {i}]
       \/ UNCHANGED owed
    /\ UNCHANGED <<status, aged, rows, uploadVars, del, jobVars, dead>>

(* Mutant: a descriptor that has used up its attempts is discarded.         *)
RetryGivesUp_NotParked(f, i) ==
    /\ i \in owed[f]
    /\ owed' = [owed EXCEPT ![f] = @ \ {i}]
    /\ UNCHANGED <<fileVars, uploadVars, del, jobVars, dead>>

(* A descriptor has used up its attempts; another of the message may remain.*)
RetryGivesUp(f, i) ==
    /\ i \in owed[f]
    /\ dead' = [dead EXCEPT ![f] = @ \union {i}]
    /\ \/ owed' = [owed EXCEPT ![f] = @ \ {i}]
       \/ UNCHANGED owed
    /\ UNCHANGED <<fileVars, uploadVars, del, jobVars>>

(* dequeue is the only claim on a descriptor: the run that holds it ends    *)
(* before mark_failed, and the descriptor is gone.                          *)
RetryDropped(f, i) ==
    /\ "drop" \in Faults
    /\ i \in owed[f]
    /\ owed' = [owed EXCEPT ![f] = @ \ {i}]
    /\ UNCHANGED <<fileVars, uploadVars, del, jobVars, dead>>

(* The process dies: requests and job runs end where they are.              *)
Crash ==
    /\ "crash" \in Faults
    /\ pc' = [f \in Files |-> IF Uploading(f) THEN "failed" ELSE pc[f]]
    /\ del' = [f \in Files |-> [r \in Requests |->
                IF del[f][r] = "mark" THEN "done" ELSE del[f][r]]]
    /\ batch' = [j \in Jobs |-> {}]
    /\ target' = [j \in Jobs |-> NoFile]
    /\ todo' = [j \in Jobs |-> {}]
    /\ UNCHANGED <<fileVars, sent, queueVars>>

Upload(f) ==
    \/ UploadInsert(f) \/ UploadSend(f) \/ UploadRecord(f)
    \/ UploadCommitChunks(f) \/ UploadCommitFile(f)
    \/ UploadFails(f) \/ SendReplyLost(f) \/ RecordFails(f)

Delete(f, r) ==
    DeleteLoad(f, r) \/ DeleteMark(f, r) \/ DeleteFails(f, r)

JobMessage(j, i) ==
    JobDeleteMessage(j, i) \/ JobDeferMessage(j, i) \/ JobSkipMessage(j, i)

JobStep(j) ==
    \/ JobFind(j)
    \/ \E f \in Files : JobList(j, f)
    \/ \E i \in Index : JobMessage(j, i)
    \/ JobDeleteRow(j)

Retry(f, i) == RetryDelivers(f, i) \/ RetryGivesUp(f, i)

Next ==
    \/ \E f \in Files : Upload(f) \/ Age(f)
    \/ \E f \in Files, r \in Requests : Delete(f, r)
    \/ \E j \in Jobs : JobStep(j) \/ JobAbort(j)
    \/ \E f \in Files, i \in Index : Retry(f, i) \/ RetryDropped(f, i)
    \/ Crash

Spec == Init /\ [][Next]_vars

(* Time passes, QStash keeps delivering both schedules and a run that was   *)
(* started goes on; the queue is drained by every run.  Nothing is assumed  *)
(* of the clients: an upload may hang and a delete may never be asked for.  *)
Fairness ==
    /\ \A f \in Files : WF_vars(Age(f))
    /\ \A j \in Jobs : WF_vars(JobStep(j))
    /\ \A f \in Files, i \in Index : WF_vars(Retry(f, i))

LiveSpec == Spec /\ Fairness

-----------------------------------------------------------------------------
(****************************************************************************)
(* Properties.                                                              *)
(****************************************************************************)

(* Every byte of the file can be found and fetched.                         *)
Intact(f) ==
    \A i \in 0 .. (ChunkCount[f] - 1) :
        rows[f][i] = "committed" /\ i \in msgs[f]

(* A file shown as committed is complete: neither a cleanup run acting on a *)
(* stale list or snapshot, nor a late retry of some delete, nor a crash     *)
(* anywhere takes a chunk row or a message from under it, and the commit    *)
(* marker is never set before its chunks (storage/upload.py 103-108).       *)
CommittedIntact == \A f \in Files : status[f] = "committed" => Intact(f)

(* The uploader has posted the chunk and has yet to record it.              *)
InHand(f, i) == pc[f] = "record" /\ sent[f] = i

(* No Telegram message is forgotten: as long as one exists, something still *)
(* knows about it - its chunk row, the upload that is about to write that   *)
(* row, a retry descriptor, or the dead-letter list an operator reads.  The *)
(* rows go before the last message does (jobs/service.py 167-192), so this  *)
(* relates the order of three handlers and the queue.                       *)
MessagesAccounted ==
    \A f \in Files : \A i \in msgs[f] :
        \/ rows[f][i] # "none"
        \/ InHand(f, i)
        \/ i \in owed[f] \union dead[f]

(* What the owner may rely on, read off the rows and the messages.  A       *)
(* committed file that is not intact has no place in FileStore.             *)
Phase(f) ==
    CASE status[f] = "none"      -> "absent"
      [] status[f] = "pending"   -> "uploading"
      [] status[f] = "committed" -> IF Intact(f) THEN "available" ELSE "lost"
      [] status[f] = "deleting"  -> "removed"
      [] status[f] = "gone"      -> "erased"

Phases == [f \in Files |-> Phase(f)]

Store == INSTANCE FileStore WITH phase <- Phases

(* The lifecycle implements the store: a file becomes available at one      *)
(* step, is removed only by its owner, is never erased while available, and *)
(* never returns from removed or erased, whichever of mark_committed,       *)
(* mark_deleting and delete_row - unconditional updates by id - comes last. *)
ImplementsStore == Store!Spec

(* Every soft-deleted file is erased in the end (jobs/enqueue.py 56-66: the *)
(* scheduled sweep is the guaranteed backstop), with no help from the       *)
(* request that deleted it.                                                 *)
ImplementsLiveStore == Store!LiveSpec

Pairs(at) == {m \in Files \X Index : m[2] \in at[m[1]]}

Deletes == INSTANCE DeferredDeletes WITH
    Messages <- Files \X Index,
    live <- Pairs(msgs), owed <- Pairs(owed), dead <- Pairs(dead)

(* Seen from the queue, the same steps are those of DeferredDeletes, the    *)
(* promise that RetryQueue is shown to keep: no run, request or replay      *)
(* takes a message off the queue except by deleting or parking it, and no   *)
(* upload posts to a message that was already handed over.                  *)
ImplementsDeletes == Deletes!Spec

(* An upload that failed is reclaimed: its row goes, and every message it   *)
(* had recorded is deleted or ends in the dead-letter list.                 *)
AbandonedReclaimed ==
    \A f \in Files :
        (pc[f] = "failed" /\ status[f] = "pending")
            ~> (status[f] = "gone" /\ msgs[f] \subseteq dead[f])

(* The same for the messages of a soft-deleted file.                        *)
RemovedReclaimed ==
    \A f \in Files :
        status[f] = "deleting" ~> (status[f] = "gone" /\ msgs[f] \subseteq dead[f])
=============================================================================
