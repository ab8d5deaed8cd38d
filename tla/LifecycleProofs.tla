--------------------------- MODULE LifecycleProofs ---------------------------
(****************************************************************************)
(* Theorems about Lifecycle, for any files, chunk counts, requests and job  *)
(* runs.  Section 1 is type correctness.  Section 2 is the inductive        *)
(* invariant behind CommittedIntact, section 3 the refinement of FileStore, *)
(* section 4 the accounting of messages, section 5 the refinement of        *)
(* DeferredDeletes.                                                         *)
(****************************************************************************)
EXTENDS Lifecycle, TLAPS

-----------------------------------------------------------------------------
(* 1. Types                                                                 *)

(* A chunk to be recorded is one of the file's: without this the chunk      *)
(* index would not be known to stay within its type.                        *)
RecordBound == \A f \in Files : pc[f] = "record" => sent[f] < ChunkCount[f]

LEMMA TypeInit == Init => TypeOK /\ RecordBound
  BY ConstantsAssumption
  DEF Init, TypeOK, RecordBound, Index, Statuses, UploadSteps

LEMMA TypeUpload ==
  ASSUME TypeOK, RecordBound, NEW f \in Files, Upload(f)
  PROVE  TypeOK'
  <1> USE ConstantsAssumption
      DEF TypeOK, Index, Statuses, UploadSteps, Goto, fileVars, uploadVars, jobVars,
          queueVars
  <1>1. CASE UploadInsert(f)        BY <1>1 DEF UploadInsert
  <1>2. CASE UploadSend(f)          BY <1>2 DEF UploadSend
  <1>3. CASE UploadRecord(f)
    <2>1. sent[f] \in Index /\ sent[f] + 1 \in 0 .. MaxChunks
      BY <1>3 DEF UploadRecord, RecordBound
    <2>2. CASE RowExists(f)
      <3>1. rows' = [rows EXCEPT ![f] = [rows[f] EXCEPT ![sent[f]] = "pending"]]
        BY <1>3, <2>2 DEF UploadRecord
      <3>2. [rows[f] EXCEPT ![sent[f]] = "pending"]
                \in [Index -> {"none", "pending", "committed"}]
        BY <2>1
      <3>3. /\ rows' \in [Files -> [Index -> {"none", "pending", "committed"}]]
            /\ sent' \in [Files -> 0 .. MaxChunks]
            /\ pc' \in [Files -> UploadSteps]
        <4>1. rows' \in [Files -> [Index -> {"none", "pending", "committed"}]]
          BY <3>1, <3>2
        <4>2. sent' \in [Files -> 0 .. MaxChunks] /\ pc' \in [Files -> UploadSteps]
          <5>1. /\ sent' = [sent EXCEPT ![f] = sent[f] + 1]
                /\ pc' = [pc EXCEPT ![f] = "stream"]
            BY <1>3, <2>2 DEF UploadRecord
          <5> QED BY <5>1, <2>1
        <4> QED BY <4>1, <4>2
      <3> QED BY <1>3, <3>3 DEF UploadRecord
    <2>3. CASE ~RowExists(f)
      BY <1>3, <2>3 DEF UploadRecord
    <2> QED BY <2>2, <2>3
  <1>4. CASE UploadCommitChunks(f)  BY <1>4 DEF UploadCommitChunks
  <1>5. CASE UploadCommitFile(f)    BY <1>5 DEF UploadCommitFile
  <1>6. CASE UploadFails(f)         BY <1>6 DEF UploadFails
  <1>7. CASE SendReplyLost(f)       BY <1>7 DEF SendReplyLost
  <1>8. CASE RecordFails(f)         BY <1>8 DEF RecordFails
  <1> QED BY <1>1, <1>2, <1>3, <1>4, <1>5, <1>6, <1>7, <1>8 DEF Upload

LEMMA TypeDelete ==
  ASSUME TypeOK, NEW f \in Files, NEW r \in Requests, Delete(f, r)
  PROVE  TypeOK'
  <1> USE DEF TypeOK, Step, fileVars, uploadVars, jobVars, queueVars
  <1>1. CASE DeleteLoad(f, r)    BY <1>1 DEF DeleteLoad
  <1>2. CASE DeleteMark(f, r)    BY <1>2 DEF DeleteMark, Statuses
  <1>3. CASE DeleteFails(f, r)   BY <1>3 DEF DeleteFails
  <1> QED BY <1>1, <1>2, <1>3 DEF Delete

LEMMA TypeJob ==
  ASSUME TypeOK, NEW j \in Jobs, JobStep(j) \/ JobAbort(j)
  PROVE  TypeOK'
  <1> USE DEF TypeOK, fileVars, uploadVars, jobVars, queueVars
  <1>1. CASE JobFind(j)
    <2>1. Candidates(Kind[j]) \subseteq Files
      BY DEF Candidates
    <2> QED BY <1>1, <2>1 DEF JobFind
  <1>2. ASSUME NEW f \in Files, JobList(j, f) PROVE TypeOK'
    <2>1. Recorded(f) \subseteq Index
      BY DEF Recorded
    <2> QED BY <1>2, <2>1 DEF JobList
  <1>3. ASSUME NEW i \in Index, JobMessage(j, i) PROVE TypeOK'
    <2>1. target[j] \in Files
      BY <1>3 DEF JobMessage, JobDeleteMessage, JobDeferMessage, JobSkipMessage,
                  NextToDelete
    <2>2. CASE JobDeleteMessage(j, i)
      BY <2>1, <2>2 DEF JobDeleteMessage, Handled
    <2>3. CASE JobDeferMessage(j, i)
      <3>1. msgs' \in [Files -> SUBSET Index]
        <4>1. \/ msgs' = msgs
              \/ msgs' = [msgs EXCEPT ![target[j]] = msgs[target[j]] \ {i}]
          BY <2>3 DEF JobDeferMessage
        <4>2. [msgs EXCEPT ![target[j]] = msgs[target[j]] \ {i}]
                  \in [Files -> SUBSET Index]
          BY <2>1
        <4> QED BY <4>1, <4>2
      <3>2. owed' \in [Files -> SUBSET Index] /\ todo' \in [Jobs -> SUBSET Index]
        BY <2>1, <2>3 DEF JobDeferMessage, Handled
      <3> QED BY <2>3, <3>1, <3>2 DEF JobDeferMessage
    <2>4. CASE JobSkipMessage(j, i)
      BY <2>4 DEF JobSkipMessage, Handled
    <2> QED BY <1>3, <2>2, <2>3, <2>4 DEF JobMessage
  <1>4. CASE JobDeleteRow(j)
    BY <1>4 DEF JobDeleteRow, Statuses
  <1>5. CASE JobAbort(j)
    BY <1>5 DEF JobAbort
  <1> QED BY <1>1, <1>2, <1>3, <1>4, <1>5 DEF JobStep

LEMMA TypeOther ==
  ASSUME TypeOK,
         \/ \E f \in Files : Age(f)
         \/ \E f \in Files, i \in Index : Retry(f, i) \/ RetryDropped(f, i)
         \/ Crash
  PROVE  TypeOK'
  <1> USE DEF TypeOK, fileVars, uploadVars, jobVars, queueVars
  <1>1. ASSUME NEW f \in Files, Age(f) PROVE TypeOK'
    BY <1>1 DEF Age
  <1>2. ASSUME NEW f \in Files, NEW i \in Index, RetryDelivers(f, i) PROVE TypeOK'
    <2>1. msgs' \in [Files -> SUBSET Index]
      BY <1>2 DEF RetryDelivers
    <2>2. owed' \in [Files -> SUBSET Index]
      <3>1. owed' = owed \/ owed' = [owed EXCEPT ![f] = owed[f] \ {i}]
        BY <1>2 DEF RetryDelivers
      <3>2. [owed EXCEPT ![f] = owed[f] \ {i}] \in [Files -> SUBSET Index]
        OBVIOUS
      <3> QED BY <3>1, <3>2
    <2> QED BY <1>2, <2>1, <2>2 DEF RetryDelivers
  <1>3. ASSUME NEW f \in Files, NEW i \in Index, RetryGivesUp(f, i) PROVE TypeOK'
    <2>1. /\ owed' = owed \/ owed' = [owed EXCEPT ![f] = owed[f] \ {i}]
          /\ dead' = [dead EXCEPT ![f] = dead[f] \union {i}]
      BY <1>3 DEF RetryGivesUp
    <2>2. [owed EXCEPT ![f] = owed[f] \ {i}] \in [Files -> SUBSET Index]
      OBVIOUS
    <2>3. dead' \in [Files -> SUBSET Index]
      BY <2>1
    <2> QED BY <1>3, <2>1, <2>2, <2>3 DEF RetryGivesUp
  <1>4. ASSUME NEW f \in Files, NEW i \in Index, RetryDropped(f, i) PROVE TypeOK'
    BY <1>4 DEF RetryDropped
  <1>5. CASE Crash
    BY <1>5 DEF Crash, UploadSteps
  <1> QED BY <1>1, <1>2, <1>3, <1>4, <1>5 DEF Retry

LEMMA RecordBoundStep ==
  ASSUME TypeOK, RecordBound, [Next]_vars
  PROVE  RecordBound'
  <1> USE DEF TypeOK, RecordBound, UploadSteps, Goto, fileVars, uploadVars, jobVars, queueVars
  <1>1. ASSUME NEW f \in Files, Upload(f) PROVE RecordBound'
    BY <1>1 DEF Upload, UploadInsert, UploadSend, UploadRecord, UploadCommitChunks,
                UploadCommitFile, UploadFails, SendReplyLost,
                RecordFails
  <1>2. CASE Crash
    BY <1>2 DEF Crash, Uploading
  <1>3. CASE UNCHANGED uploadVars
    BY <1>3
  <1>4. UNCHANGED uploadVars \/ Crash \/ \E f \in Files : Upload(f)
    BY SMTT(30) DEF Next, vars, Age, Delete, DeleteLoad, DeleteMark, DeleteFails,
           JobStep, JobFind, JobList, JobMessage, JobDeleteMessage, JobDeferMessage,
           JobSkipMessage, JobDeleteRow, JobAbort, Retry, RetryDelivers,
           RetryGivesUp, RetryDropped
  <1> QED BY <1>1, <1>2, <1>3, <1>4

LEMMA TypeStep == TypeOK /\ RecordBound /\ [Next]_vars => (TypeOK /\ RecordBound)'
  <1>1. ASSUME TypeOK, UNCHANGED vars PROVE TypeOK'
    BY <1>1 DEF TypeOK, vars, fileVars, uploadVars, jobVars, queueVars
  <1> QED BY <1>1, TypeUpload, TypeDelete, TypeJob, TypeOther, RecordBoundStep DEF Next

LEMMA TypeAlways == Spec => [](TypeOK /\ RecordBound)
  BY TypeInit, TypeStep, PTL DEF Spec

(* The variables of the lifecycle keep their types; in particular no upload *)
(* ever sends or records a chunk beyond the file's last.                    *)
THEOREM TypeCorrect == Spec => []TypeOK
  BY TypeAlways, PTL

-----------------------------------------------------------------------------
(* 2. A committed file is intact                                            *)

(* Nothing that runs now or later can make the file committed (again).      *)
(* This is what a cleanup run and the retry queue know of every file they   *)
(* work on, however stale the query they work from.                         *)
Doomed(f) ==
    \/ status[f] \in {"deleting", "gone"}
    \/ status[f] = "pending" /\ pc[f] = "failed"

(* While an upload runs its row is pending and complete up to sent[f].      *)
UploadInv(f) ==
    /\ pc[f] = "idle" <=> status[f] = "none"
    /\ pc[f] = "idle" => sent[f] = 0
    /\ Uploading(f) =>
          /\ status[f] = "pending"
          /\ f \notin aged
          /\ \A i \in 0 .. (sent[f] - 1) : rows[f][i] # "none" /\ i \in msgs[f]
    /\ pc[f] = "record" => sent[f] \in msgs[f]
    /\ pc[f] = "commit" =>
          /\ sent[f] = ChunkCount[f]
          /\ \A i \in 0 .. (sent[f] - 1) : rows[f][i] = "committed"
    /\ pc[f] = "done" => status[f] \in {"committed", "deleting", "gone"}

FileInv(f) ==
    /\ UploadInv(f)
    /\ f \in aged => pc[f] # "idle"
    /\ \A r \in Requests :
          del[f][r] = "mark" => status[f] \in {"committed", "deleting", "gone"}
    /\ owed[f] # {} => Doomed(f)
    /\ status[f] = "committed" => Intact(f)

JobInv(j) == \A f \in Files : f \in batch[j] \/ target[j] = f => Doomed(f)

Inv ==
    /\ TypeOK /\ RecordBound
    /\ \A f \in Files : FileInv(f)
    /\ \A j \in Jobs : JobInv(j)

LEMMA InvInit == Init => Inv
  <1> SUFFICES ASSUME Init PROVE Inv
    OBVIOUS
  <1>1. ASSUME NEW f \in Files PROVE FileInv(f)
    BY DEF Init, FileInv, UploadInv, Uploading
  <1>2. ASSUME NEW j \in Jobs PROVE JobInv(j)
    BY ConstantsAssumption DEF Init, JobInv
  <1> QED BY <1>1, <1>2, TypeInit DEF Inv

(* A file none of whose state changes keeps its invariant.                  *)
Untouched(f) ==
    /\ status'[f] = status[f] /\ (f \in aged' <=> f \in aged)
    /\ rows'[f] = rows[f] /\ msgs'[f] = msgs[f]
    /\ pc'[f] = pc[f] /\ sent'[f] = sent[f]
    /\ del'[f] = del[f] /\ owed'[f] = owed[f]

LEMMA UntouchedKeeps ==
  ASSUME NEW f \in Files, FileInv(f), Untouched(f)
  PROVE  FileInv(f)'
  <1>1. UploadInv(f)'
    BY DEF Untouched, FileInv, UploadInv, Uploading
  <1>2. status'[f] = "committed" => Intact(f)'
    BY DEF Untouched, FileInv, Intact
  <1> QED BY <1>1, <1>2 DEF Untouched, FileInv, Doomed

LEMMA InvUpload ==
  ASSUME Inv, NEW f \in Files, Upload(f), NEW g \in Files
  PROVE  FileInv(g)'
  <1> USE ConstantsAssumption
      DEF TypeOK, Goto, fileVars, uploadVars, jobVars, queueVars
  <1>0. TypeOK /\ RecordBound /\ FileInv(f) /\ FileInv(g)
    BY DEF Inv
  <1>1. CASE g # f
    <2>1. Untouched(g)
      BY <1>0, <1>1
      DEF Untouched, Upload, UploadInsert, UploadSend, UploadRecord, UploadCommitChunks,
          UploadCommitFile, UploadFails, SendReplyLost, RecordFails
    <2> QED BY <1>0, <2>1, UntouchedKeeps
  <1>2. CASE g = f
    <2> USE <1>0, <1>2 DEF FileInv, UploadInv, Uploading, Doomed, Intact, Statuses, UploadSteps
    <2>1. CASE UploadInsert(f)        BY <2>1 DEF UploadInsert
    <2>2. CASE UploadSend(f)          BY <2>2 DEF UploadSend
    <2>3. CASE UploadRecord(f)        BY <2>3 DEF UploadRecord, RowExists, RecordBound, Index
    <2>4. CASE UploadCommitChunks(f)  BY <2>4 DEF UploadCommitChunks, Index
    <2>5. CASE UploadCommitFile(f)    BY <2>5 DEF UploadCommitFile
    <2>6. CASE UploadFails(f)         BY <2>6 DEF UploadFails
    <2>7. CASE SendReplyLost(f)       BY <2>7 DEF SendReplyLost
    <2>8. CASE RecordFails(f)         BY <2>8 DEF RecordFails
    <2> QED BY <2>1, <2>2, <2>3, <2>4, <2>5, <2>6, <2>7, <2>8 DEF Upload
  <1> QED BY <1>1, <1>2

LEMMA InvDelete ==
  ASSUME Inv, NEW f \in Files, NEW r \in Requests, Delete(f, r), NEW g \in Files
  PROVE  FileInv(g)'
  <1> USE DEF TypeOK, Step, fileVars, uploadVars, jobVars, queueVars
  <1>0. TypeOK /\ FileInv(f) /\ FileInv(g)
    BY DEF Inv
  <1>1. CASE g # f
    <2>1. Untouched(g)
      BY <1>0, <1>1
      DEF Untouched, Delete, DeleteLoad, DeleteMark, DeleteFails
    <2> QED BY <1>0, <2>1, UntouchedKeeps
  <1>2. CASE g = f
    <2> USE <1>0, <1>2 DEF FileInv, UploadInv, Uploading, Doomed, Intact, Statuses
    <2>1. CASE DeleteLoad(f, r)    BY <2>1 DEF DeleteLoad
    <2>2. CASE DeleteMark(f, r)    BY <2>2 DEF DeleteMark, RowExists
    <2>3. CASE DeleteFails(f, r)   BY <2>3 DEF DeleteFails
    <2> QED BY <2>1, <2>2, <2>3 DEF Delete
  <1> QED BY <1>1, <1>2

(* A run only touches messages and rows of doomed files.                    *)
LEMMA InvJob ==
  ASSUME Inv, NEW j \in Jobs, JobStep(j) \/ JobAbort(j), NEW g \in Files
  PROVE  FileInv(g)'
  <1> USE DEF TypeOK, fileVars, uploadVars, jobVars, queueVars
  <1>0. TypeOK /\ FileInv(g) /\ JobInv(j)
    BY DEF Inv
  <1>1. CASE JobFind(j) \/ JobAbort(j) \/ \E f \in Files : JobList(j, f)
    <2>1. Untouched(g)
      BY <1>1 DEF Untouched, JobFind, JobAbort, JobList
    <2> QED BY <1>0, <2>1, UntouchedKeeps
  <1>2. ASSUME NEW i \in Index, JobMessage(j, i) PROVE FileInv(g)'
    <2> USE DEF JobMessage, JobDeleteMessage, JobDeferMessage, JobSkipMessage, NextToDelete
    <2>1. CASE g # target[j]
      <3>1. Untouched(g)
        BY <1>0, <1>2, <2>1 DEF Untouched
      <3> QED BY <1>0, <3>1, UntouchedKeeps
    <2>2. CASE g = target[j]
      <3>1. Doomed(g)
        BY <1>0, <2>2 DEF JobInv
      <3>2. UNCHANGED <<status, aged, rows, uploadVars, del>>
        BY <1>2
      <3> QED
        BY <1>0, <3>1, <3>2
        DEF FileInv, UploadInv, Uploading, Doomed, Intact, Statuses
    <2> QED BY <2>1, <2>2
  <1>3. CASE JobDeleteRow(j)
    <2>1. CASE g # target[j]
      <3>1. Untouched(g)
        BY <1>0, <1>3, <2>1 DEF Untouched, JobDeleteRow
      <3> QED BY <1>0, <3>1, UntouchedKeeps
    <2>2. CASE g = target[j]
      <3>1. Doomed(g)
        BY <1>0, <2>2 DEF JobInv
      <3> QED
        BY <1>0, <1>3, <2>2, <3>1
        DEF JobDeleteRow, FileInv, UploadInv, Uploading, Doomed, Intact, Statuses
    <2> QED BY <2>1, <2>2
  <1> QED BY <1>1, <1>2, <1>3 DEF JobStep

LEMMA InvOther ==
  ASSUME "slow" \notin Faults, Inv, NEW g \in Files,
         \/ \E f \in Files : Age(f)
         \/ \E f \in Files, i \in Index : Retry(f, i) \/ RetryDropped(f, i)
         \/ Crash
  PROVE  FileInv(g)'
  <1> USE DEF TypeOK, fileVars, uploadVars, jobVars, queueVars, Statuses
  <1>0. TypeOK /\ FileInv(g)
    BY DEF Inv
  <1>1. ASSUME NEW f \in Files, Age(f) PROVE FileInv(g)'
    BY <1>0, <1>1 DEF Age, RowExists, FileInv, UploadInv, Uploading, Doomed, Intact
  <1>2. ASSUME NEW f \in Files, NEW i \in Index, Retry(f, i) \/ RetryDropped(f, i)
        PROVE  FileInv(g)'
    <2> USE DEF Retry, RetryDelivers, RetryGivesUp, RetryDropped
    <2>1. CASE g # f
      <3>1. Untouched(g)
        BY <1>0, <1>2, <2>1 DEF Untouched
      <3> QED BY <1>0, <3>1, UntouchedKeeps
    <2>2. CASE g = f
      <3>1. Doomed(g)
        BY <1>0, <1>2, <2>2 DEF FileInv
      <3>2. UNCHANGED <<status, aged, rows, uploadVars, del>>
        BY <1>2
      <3> QED
        BY <1>0, <3>1, <3>2 DEF FileInv, UploadInv, Uploading, Doomed, Intact
    <2> QED BY <2>1, <2>2
  <1>3. CASE Crash
    BY <1>0, <1>3 DEF Crash, FileInv, UploadInv, Uploading, Doomed, Intact
  <1> QED BY <1>1, <1>2, <1>3

(* A doomed file stays doomed: the upload that could commit it has failed.  *)
LEMMA DoomedStable ==
  ASSUME Inv, [Next]_vars, NEW g \in Files, Doomed(g)
  PROVE  Doomed(g)'
  <1> USE DEF Doomed, Goto, Step, fileVars, uploadVars, jobVars, queueVars
  <1>0. TypeOK /\ FileInv(g)
    BY DEF Inv
  <1>1. ASSUME NEW f \in Files, Upload(f) PROVE Doomed(g)'
    BY <1>0, <1>1
    DEF TypeOK, FileInv, UploadInv, Uploading, Upload, UploadInsert, UploadSend,
        UploadRecord, UploadCommitChunks, UploadCommitFile, UploadFails,
        SendReplyLost, RecordFails
  <1>2. ASSUME NEW f \in Files, NEW r \in Requests, Delete(f, r) PROVE Doomed(g)'
    BY <1>0, <1>2
    DEF TypeOK, FileInv, RowExists, Delete, DeleteLoad, DeleteMark,
        DeleteFails
  <1>3. ASSUME NEW j \in Jobs, JobDeleteRow(j) PROVE Doomed(g)'
    BY <1>0, <1>3 DEF TypeOK, JobDeleteRow
  <1>4. CASE Crash
    BY <1>0, <1>4 DEF TypeOK, Crash, Uploading
  <1>5. CASE UNCHANGED <<status, pc>>
    BY <1>5
  <1>6. \/ UNCHANGED <<status, pc>>
        \/ \E f \in Files : Upload(f) \/ \E r \in Requests : Delete(f, r)
        \/ \E j \in Jobs : JobDeleteRow(j)
        \/ Crash
    BY DEF Next, vars, Age, JobStep, JobFind, JobList, JobMessage, JobDeleteMessage,
           JobDeferMessage, JobSkipMessage, JobAbort, Retry, RetryDelivers,
           RetryGivesUp, RetryDropped
  <1> QED BY <1>1, <1>2, <1>3, <1>4, <1>5, <1>6

(* An aged pending row belongs to an upload that has failed: this is where  *)
(* the assumption about slow uploads is needed.                             *)
LEMMA CandidatesDoomed ==
  ASSUME Inv, NEW j \in Jobs, NEW g \in Candidates(Kind[j])
  PROVE  Doomed(g)
  <1>1. g \in Files
    BY DEF Inv, TypeOK, Candidates
  <1>2. TypeOK /\ FileInv(g)
    BY <1>1 DEF Inv
  <1> QED
    BY <1>1, <1>2
    DEF TypeOK, UploadSteps, FileInv, UploadInv, Uploading, Candidates, Doomed

LEMMA JobInvStep ==
  ASSUME Inv, [Next]_vars, NEW j \in Jobs
  PROVE  JobInv(j)'
  <1> SUFFICES ASSUME NEW g \in Files, g \in batch'[j] \/ target'[j] = g
               PROVE  Doomed(g)'
    BY DEF JobInv
  <1>1. g \in batch[j] \/ target[j] = g \/ JobFind(j)
    <2> USE DEF Inv, TypeOK, fileVars, uploadVars, jobVars, queueVars
    <2>1. ASSUME NEW k \in Jobs, JobStep(k) \/ JobAbort(k)
          PROVE  g \in batch[j] \/ target[j] = g \/ JobFind(j)
      <3>1. CASE k # j
        BY <2>1, <3>1
        DEF JobStep, JobFind, JobList, JobMessage, JobDeleteMessage, JobDeferMessage,
            JobSkipMessage, JobDeleteRow, JobAbort
      <3>2. CASE k = j
        <4>1. CASE \E f \in Files : JobList(j, f)
          BY <4>1 DEF JobList
        <4>2. CASE JobDeleteRow(j) \/ JobAbort(j)
          BY <4>2, ConstantsAssumption DEF JobDeleteRow, JobAbort
        <4>3. CASE \E i \in Index : JobMessage(j, i)
          BY <4>3 DEF JobMessage, JobDeleteMessage, JobDeferMessage, JobSkipMessage
        <4> QED BY <2>1, <3>2, <4>1, <4>2, <4>3 DEF JobStep
      <3> QED BY <3>1, <3>2
    <2>2. CASE Crash
      BY <2>2, ConstantsAssumption DEF Crash
    <2>3. CASE UNCHANGED jobVars
      BY <2>3
    <2>4. \/ UNCHANGED jobVars \/ Crash
          \/ \E k \in Jobs : JobStep(k) \/ JobAbort(k)
      BY DEF Next, vars, Upload, UploadInsert, UploadSend, UploadRecord,
             UploadCommitChunks, UploadCommitFile, UploadFails,
             SendReplyLost, RecordFails, Age, Delete, DeleteLoad,
             DeleteMark, DeleteFails, Retry, RetryDelivers,
             RetryGivesUp, RetryDropped
    <2> QED BY <2>1, <2>2, <2>3, <2>4
  <1>2. Doomed(g)
    <2>1. CASE g \in batch[j] \/ target[j] = g
      BY <2>1 DEF Inv, JobInv
    <2>2. CASE JobFind(j)
      <3>1. g \in batch[j] \/ target[j] = g \/ g \in Candidates(Kind[j])
        BY <2>2 DEF JobFind, Inv, TypeOK
      <3> QED BY <2>1, <3>1, CandidatesDoomed
    <2> QED BY <1>1, <2>1, <2>2
  <1> QED BY <1>2, DoomedStable

LEMMA InvStep ==
  ASSUME "slow" \notin Faults, Inv, [Next]_vars
  PROVE  Inv'
  <1>1. (TypeOK /\ RecordBound)'
    BY TypeStep DEF Inv
  <1>2. ASSUME NEW g \in Files PROVE FileInv(g)'
    <2>1. CASE UNCHANGED vars
      <3>1. FileInv(g) /\ Untouched(g)
        BY <2>1 DEF Inv, Untouched, vars, fileVars, uploadVars, queueVars
      <3> QED BY <3>1, UntouchedKeeps
    <2>2. CASE Next
      BY <2>2, InvUpload, InvDelete, InvJob, InvOther DEF Next
    <2> QED BY <2>1, <2>2
  <1>3. ASSUME NEW j \in Jobs PROVE JobInv(j)'
    BY JobInvStep
  <1> QED BY <1>1, <1>2, <1>3 DEF Inv

LEMMA InvAlways ==
  ASSUME "slow" \notin Faults
  PROVE  Spec => []Inv
  BY InvInit, InvStep, PTL DEF Spec

(* Provided no upload outlives the sweep's age limit, a file shown as       *)
(* committed always has every chunk row and every message, whichever other  *)
(* faults occur and however many deletes and job runs overlap.              *)
THEOREM CommittedStaysIntact ==
  ASSUME "slow" \notin Faults
  PROVE  Spec => []CommittedIntact
  <1>1. Inv => CommittedIntact
    BY DEF Inv, FileInv, CommittedIntact
  <1> QED BY <1>1, InvAlways, PTL

-----------------------------------------------------------------------------
(* 3. The lifecycle implements FileStore                                    *)

(* Where one step may take the status of a row.                             *)
Moves == {<<"none", "pending">>, <<"pending", "committed">>, <<"committed", "deleting">>,
          <<"pending", "gone">>, <<"deleting", "gone">>}

MoveOf(f) ==
    /\ <<status[f], status'[f]>> \in Moves
    /\ \A g \in Files \ {f} : status'[g] = status[g]

LEMMA StatusMoves ==
  ASSUME Inv, [Next]_vars
  PROVE  UNCHANGED status \/ \E f \in Files : MoveOf(f)
  <1> USE DEF Moves, MoveOf, Doomed, fileVars, uploadVars, jobVars, queueVars
  <1>0. TypeOK /\ \A f \in Files : FileInv(f)
    BY DEF Inv
  <1>1. ASSUME NEW f \in Files, UploadInsert(f) PROVE MoveOf(f)
    BY <1>0, <1>1 DEF TypeOK, UploadInsert, FileInv, UploadInv
  <1>2. ASSUME NEW f \in Files, UploadCommitFile(f) PROVE UNCHANGED status \/ MoveOf(f)
    BY <1>0, <1>2 DEF TypeOK, UploadCommitFile, FileInv, UploadInv, Uploading
  <1>3. ASSUME NEW f \in Files, NEW r \in Requests, DeleteMark(f, r)
        PROVE  UNCHANGED status \/ MoveOf(f)
    BY <1>0, <1>3 DEF TypeOK, DeleteMark, FileInv, RowExists
  <1>4. ASSUME NEW j \in Jobs, JobDeleteRow(j)
        PROVE  UNCHANGED status \/ MoveOf(target[j])
    <2>1. target[j] \in Files /\ Doomed(target[j])
      BY <1>0, <1>4 DEF TypeOK, JobDeleteRow, Inv, JobInv
    <2> QED BY <1>0, <1>4, <2>1 DEF TypeOK, JobDeleteRow
  <1>5. \/ UNCHANGED status
        \/ \E f \in Files : \/ UploadInsert(f) \/ UploadCommitFile(f)
                             \/ \E r \in Requests : DeleteMark(f, r)
        \/ \E j \in Jobs : JobDeleteRow(j)
    BY DEF Next, vars, Upload, UploadSend, UploadRecord, UploadCommitChunks, UploadFails, SendReplyLost, RecordFails, Age,
           Delete, DeleteLoad, DeleteFails, JobStep, JobFind, JobList,
           JobMessage, JobDeleteMessage, JobDeferMessage, JobSkipMessage, JobAbort,
           Retry, RetryDelivers, RetryGivesUp, RetryDropped, Crash
  <1>6. \A j \in Jobs : JobDeleteRow(j) => target[j] \in Files
    BY <1>0 DEF TypeOK, JobDeleteRow
  <1> QED BY <1>1, <1>2, <1>3, <1>4, <1>5, <1>6

(* Under the invariant a committed file is available, never lost.           *)
PhaseOf(s) ==
    CASE s = "none" -> "absent" [] s = "pending" -> "uploading"
      [] s = "committed" -> "available" [] s = "deleting" -> "removed"
      [] s = "gone" -> "erased"

LEMMA PhaseByStatus ==
  ASSUME Inv
  PROVE  Phases = [f \in Files |-> PhaseOf(status[f])]
  <1>1. ASSUME NEW f \in Files PROVE Phase(f) = PhaseOf(status[f])
    <2>1. status[f] \in Statuses /\ (status[f] = "committed" => Intact(f))
      BY DEF Inv, TypeOK, FileInv
    <2> QED BY <2>1 DEF Statuses, Phase, PhaseOf
  <1> QED BY <1>1 DEF Phases

LEMMA StoreStep ==
  ASSUME Inv, Inv', [Next]_vars
  PROVE  [Store!Next]_Phases
  <1>1. /\ Phases = [f \in Files |-> PhaseOf(status[f])]
        /\ Phases' = [f \in Files |-> PhaseOf(status'[f])]
    <2>1. Phases = [f \in Files |-> PhaseOf(status[f])]
      BY PhaseByStatus
    <2>2. (Phases = [f \in Files |-> PhaseOf(status[f])])'
      BY PhaseByStatus, PTL
    <2> QED BY <2>1, <2>2
  <1>2. CASE UNCHANGED status
    BY <1>1, <1>2
  <1>3. ASSUME NEW f \in Files, MoveOf(f) PROVE Store!Next
    <2>1. Phases' = [Phases EXCEPT ![f] = PhaseOf(status'[f])]
      BY <1>1, <1>3 DEF MoveOf
    <2>2. Phases[f] = PhaseOf(status[f])
      BY <1>1
    <2>3. \/ Phases[f] = "absent" /\ PhaseOf(status'[f]) = "uploading"
          \/ Phases[f] = "uploading" /\ PhaseOf(status'[f]) = "available"
          \/ Phases[f] = "available" /\ PhaseOf(status'[f]) = "removed"
          \/ Phases[f] = "uploading" /\ PhaseOf(status'[f]) = "erased"
          \/ Phases[f] = "removed" /\ PhaseOf(status'[f]) = "erased"
      BY <1>3, <2>2 DEF MoveOf, Moves, PhaseOf
    <2> QED
      BY <2>1, <2>3
      DEF Store!Next, Store!Turn, Store!Begin, Store!Publish, Store!Remove,
          Store!Discard, Store!Erase
  <1> QED BY <1>2, <1>3, StatusMoves

(* The lifecycle implements the store the owner sees, under the same        *)
(* assumption: initial states map to initial states, and each of the calls  *)
(* maps to one step of FileStore or to none.                                *)
THEOREM StoreImplemented ==
  ASSUME "slow" \notin Faults
  PROVE  Spec => ImplementsStore
  <1>1. Init => Store!Init
    BY DEF Init, Store!Init, Phases, Phase
  <1> QED
    BY <1>1, StoreStep, InvAlways, PTL DEF Spec, ImplementsStore, Store!Spec

-----------------------------------------------------------------------------
(* 4. Every message is accounted for                                        *)

(* MessagesAccounted, by file.                                              *)
Accounted(f) ==
    \A i \in msgs[f] :
        rows[f][i] # "none" \/ InHand(f, i) \/ i \in owed[f] \union dead[f]

(* A run's snapshot of the file it cleans misses no message: what it has    *)
(* not yet listed as to do is deleted or handed over.                       *)
SnapshotComplete(j) ==
    \A f \in Files : target[j] = f =>
        \A i \in msgs[f] : i \in todo[j] \union owed[f] \union dead[f]

AccountInv ==
    /\ Inv
    /\ \A f \in Files : Accounted(f)
    /\ \A j \in Jobs : SnapshotComplete(j)

LEMMA AccountInit == Init => AccountInv
  BY InvInit DEF Init, AccountInv, Accounted, SnapshotComplete

(* An upload step is never one of a file under cleanup, and a chunk it has  *)
(* posted is in hand until its row is there.                                *)
LEMMA AccountUpload ==
  ASSUME Faults \subseteq {"abort"}, AccountInv, NEW f \in Files, Upload(f)
  PROVE  /\ \A g \in Files : Accounted(g)'
         /\ \A j \in Jobs : SnapshotComplete(j)'
  <1> USE DEF Goto, fileVars, uploadVars, jobVars, queueVars
  <1>0. TypeOK /\ FileInv(f) /\ Accounted(f)
    BY DEF AccountInv, Inv
  <1>1. ~Doomed(f)
    BY <1>0
    DEF Doomed, FileInv, UploadInv, Uploading, Upload, UploadInsert, UploadSend,
        UploadRecord, UploadCommitChunks, UploadCommitFile, UploadFails,
        SendReplyLost, RecordFails
  <1>2. UNCHANGED <<target, todo, owed, dead>> /\ \A g \in Files \ {f} : msgs'[g] = msgs[g]
    BY <1>0
    DEF TypeOK, Upload, UploadInsert, UploadSend, UploadRecord, UploadCommitChunks,
        UploadCommitFile, UploadFails, SendReplyLost, RecordFails
  <1>3. ASSUME NEW j \in Jobs PROVE SnapshotComplete(j)'
    <2>1. target[j] # f
      BY <1>1 DEF AccountInv, Inv, JobInv
    <2> QED BY <1>2, <2>1 DEF AccountInv, SnapshotComplete
  <1>4. ASSUME NEW g \in Files, g # f PROVE Accounted(g)'
    <2>1. rows'[g] = rows[g] /\ pc'[g] = pc[g] /\ sent'[g] = sent[g]
      BY <1>0, <1>4
      DEF TypeOK, Upload, UploadInsert, UploadSend, UploadRecord, UploadCommitChunks,
          UploadCommitFile, UploadFails, SendReplyLost, RecordFails
    <2> QED BY <1>2, <1>4, <2>1 DEF AccountInv, Accounted, InHand
  <1>5. Accounted(f)'
    <2> USE <1>0, <1>2 DEF TypeOK, Accounted, InHand
    <2>1. CASE UploadInsert(f)        BY <2>1 DEF UploadInsert
    <2>2. CASE UploadSend(f)          BY <2>2 DEF UploadSend
    <2>3. CASE UploadRecord(f)
      <3>1. RowExists(f)
        BY <2>3 DEF UploadRecord, RowExists, FileInv, UploadInv, Uploading
      <3>2. /\ rows' = [rows EXCEPT ![f] = [rows[f] EXCEPT ![sent[f]] = "pending"]]
            /\ msgs' = msgs
        BY <2>3, <3>1 DEF UploadRecord
      <3>3. ASSUME NEW i \in msgs[f], i \notin owed[f] \union dead[f]
            PROVE  rows'[f][i] # "none"
        <4>1. i \in Index /\ rows[f] \in [Index -> {"none", "pending", "committed"}]
          OBVIOUS
        <4>2. rows'[f] = [rows[f] EXCEPT ![sent[f]] = "pending"]
          BY <3>2
        <4>3. rows[f][i] # "none" \/ sent[f] = i
          BY <3>3
        <4> QED BY <4>1, <4>2, <4>3
      <3> QED BY <3>2, <3>3
    <2>4. CASE UploadCommitChunks(f)  BY <2>4 DEF UploadCommitChunks
    <2>5. CASE UploadCommitFile(f)    BY <2>5 DEF UploadCommitFile
    <2>6. CASE UploadFails(f)         BY <2>6 DEF UploadFails
    <2>7. CASE SendReplyLost(f) \/ RecordFails(f)
      BY <2>7 DEF SendReplyLost, RecordFails
    <2> QED BY <2>1, <2>2, <2>3, <2>4, <2>5, <2>6, <2>7 DEF Upload
  <1> QED BY <1>3, <1>4, <1>5

LEMMA AccountJob ==
  ASSUME Faults \subseteq {"abort"}, AccountInv, NEW j \in Jobs, JobStep(j) \/ JobAbort(j)
  PROVE  /\ \A g \in Files : Accounted(g)'
         /\ \A k \in Jobs : SnapshotComplete(k)'
  <1> USE ConstantsAssumption DEF TypeOK, fileVars, uploadVars, jobVars, queueVars
  <1>0. TypeOK /\ JobInv(j) /\ SnapshotComplete(j)
    BY DEF AccountInv, Inv
  <1>1. CASE JobFind(j) \/ JobAbort(j)
    <2>1. /\ UNCHANGED <<rows, msgs, pc, sent, owed, dead>>
          /\ \A k \in Jobs :
                target'[k] = NoFile \/ (target'[k] = target[k] /\ todo'[k] = todo[k])
      <3>1. CASE JobFind(j)
        BY <3>1 DEF JobFind
      <3>2. CASE JobAbort(j)
        <4>1. /\ UNCHANGED <<rows, msgs, pc, sent, owed, dead>>
              /\ target' = [target EXCEPT ![j] = NoFile] /\ todo' = [todo EXCEPT ![j] = {}]
          BY <3>2 DEF JobAbort
        <4>2. DOMAIN target = Jobs /\ DOMAIN todo = Jobs
          BY <1>0
        <4> QED BY <4>1, <4>2
      <3> QED BY <1>1, <3>1, <3>2
    <2>2. \A g \in Files : Accounted(g)'
      BY <2>1 DEF AccountInv, Accounted, InHand
    <2>3. \A k \in Jobs : SnapshotComplete(k)'
      BY <2>1 DEF AccountInv, SnapshotComplete
    <2> QED BY <2>2, <2>3
  <1>2. ASSUME NEW f \in Files, JobList(j, f)
        PROVE  /\ \A g \in Files : Accounted(g)'
               /\ \A k \in Jobs : SnapshotComplete(k)'
    <2>1. \A g \in Files : Accounted(g)'
      BY <1>2 DEF JobList, AccountInv, Accounted, InHand
    <2>2. ASSUME NEW k \in Jobs, k # j PROVE SnapshotComplete(k)'
      BY <1>0, <1>2, <2>2 DEF JobList, AccountInv, SnapshotComplete
    <2>3. SnapshotComplete(j)'
      <3>1. \A i \in Index : ~InHand(f, i)
        BY <1>0, <1>2
        DEF JobList, JobInv, Doomed, AccountInv, Inv, FileInv, UploadInv, Uploading,
            InHand
      <3>2. \A i \in msgs[f] : i \in Recorded(f) \union owed[f] \union dead[f]
        BY <1>0, <3>1 DEF AccountInv, Accounted, Recorded
      <3> QED BY <1>0, <1>2, <3>2 DEF JobList, SnapshotComplete
    <2> QED BY <2>1, <2>2, <2>3
  <1>3. ASSUME NEW i \in Index, JobMessage(j, i)
        PROVE  /\ \A g \in Files : Accounted(g)'
               /\ \A k \in Jobs : SnapshotComplete(k)'
    <2>1. PICK f \in Files : target[j] = f
      BY <1>0, <1>3
      DEF JobMessage, JobDeleteMessage, JobDeferMessage, JobSkipMessage, NextToDelete
    <2>2. /\ \A g \in Files : msgs'[g] \subseteq msgs[g] /\ owed[g] \subseteq owed'[g]
          /\ UNCHANGED <<rows, pc, sent, dead, target>>
      BY <1>0, <1>3, <2>1
      DEF JobMessage, JobDeleteMessage, JobDeferMessage, JobSkipMessage
    <2>3. \A g \in Files : Accounted(g)'
      BY <2>2 DEF AccountInv, Accounted, InHand
    <2>4. ASSUME NEW k \in Jobs, k # j PROVE SnapshotComplete(k)'
      <3>1. todo'[k] = todo[k]
        BY <1>0, <1>3, <2>4
        DEF JobMessage, JobDeleteMessage, JobDeferMessage, JobSkipMessage, Handled
      <3> QED BY <2>2, <3>1 DEF AccountInv, SnapshotComplete
    <2>5. SnapshotComplete(j)'
      <3>1. todo'[j] = todo[j] \ {i}
        BY <1>0, <1>3
        DEF JobMessage, JobDeleteMessage, JobDeferMessage, JobSkipMessage, Handled
      <3>2. i \notin msgs'[f] \/ i \in owed'[f]
        BY <1>0, <1>3, <2>1
        DEF JobMessage, JobDeleteMessage, JobDeferMessage, JobSkipMessage
      <3> QED BY <1>0, <2>1, <2>2, <3>1, <3>2 DEF SnapshotComplete
    <2> QED BY <2>3, <2>4, <2>5
  <1>4. CASE JobDeleteRow(j)
    <2>1. PICK f \in Files : target[j] = f
      BY <1>0, <1>4 DEF JobDeleteRow
    <2>2. \A i \in msgs[f] : i \in owed[f] \union dead[f]
      BY <1>0, <1>4, <2>1 DEF JobDeleteRow, SnapshotComplete
    <2>3. /\ UNCHANGED <<msgs, pc, sent, owed, dead, todo>>
          /\ \A g \in Files \ {f} : rows'[g] = rows[g]
      BY <1>0, <1>4, <2>1 DEF JobDeleteRow
    <2>4. \A g \in Files : Accounted(g)'
      BY <2>2, <2>3 DEF AccountInv, Accounted, InHand
    <2>5. \A k \in Jobs : target'[k] = target[k] \/ target'[k] \notin Files
      BY <1>0, <1>4 DEF JobDeleteRow
    <2> QED BY <2>3, <2>4, <2>5 DEF AccountInv, SnapshotComplete
  <1> QED BY <1>1, <1>2, <1>3, <1>4 DEF JobStep

LEMMA AccountOther ==
  ASSUME Faults \subseteq {"abort"}, AccountInv,
         \/ \E f \in Files : Age(f) \/ \E r \in Requests : Delete(f, r)
         \/ \E f \in Files, i \in Index : Retry(f, i) \/ RetryDropped(f, i)
         \/ Crash
         \/ UNCHANGED vars
  PROVE  /\ \A g \in Files : Accounted(g)'
         /\ \A k \in Jobs : SnapshotComplete(k)'
  <1> USE DEF TypeOK, fileVars, uploadVars, jobVars, queueVars
  <1>1. CASE UNCHANGED <<rows, msgs, pc, sent, owed, dead, target, todo>>
    BY <1>1 DEF AccountInv, Accounted, InHand, SnapshotComplete
  <1>2. ASSUME NEW f \in Files, NEW i \in Index, RetryDelivers(f, i) \/ RetryGivesUp(f, i)
        PROVE  /\ \A g \in Files : Accounted(g)'
               /\ \A k \in Jobs : SnapshotComplete(k)'
    <2>0. TypeOK
      BY DEF AccountInv, Inv
    <2>1. UNCHANGED <<rows, pc, sent, target, todo>>
      BY <1>2 DEF RetryDelivers, RetryGivesUp
    <2>2. ASSUME NEW g \in Files, NEW k \in msgs'[g]
          PROVE  /\ k \in msgs[g]
                 /\ k \in owed[g] \union dead[g] => k \in owed'[g] \union dead'[g]
      <3>1. CASE RetryDelivers(f, i)
        BY <2>0, <2>2, <3>1 DEF RetryDelivers
      <3>2. CASE RetryGivesUp(f, i)
        <4>1. /\ msgs' = msgs
              /\ dead' = [dead EXCEPT ![f] = dead[f] \union {i}]
              /\ owed' = owed \/ owed' = [owed EXCEPT ![f] = owed[f] \ {i}]
          BY <3>2 DEF RetryGivesUp
        <4> QED BY <2>0, <2>2, <4>1
      <3> QED BY <1>2, <3>1, <3>2
    <2>3. \A g \in Files : Accounted(g)'
      BY <2>1, <2>2 DEF AccountInv, Accounted, InHand
    <2>4. \A k \in Jobs : SnapshotComplete(k)'
      BY <2>1, <2>2 DEF AccountInv, SnapshotComplete
    <2> QED BY <2>3, <2>4
  <1>3. \/ UNCHANGED <<rows, msgs, pc, sent, owed, dead, target, todo>>
        \/ \E f \in Files, i \in Index : RetryDelivers(f, i) \/ RetryGivesUp(f, i)
    BY DEF Age, Delete, DeleteLoad, DeleteMark, DeleteFails, Retry, RetryDropped, Crash, vars
  <1> QED BY <1>1, <1>2, <1>3

LEMMA AccountStep ==
  ASSUME Faults \subseteq {"abort"}, AccountInv, [Next]_vars
  PROVE  AccountInv'
  <1>1. Inv'
    BY InvStep DEF AccountInv
  <1>2. (\A g \in Files : Accounted(g)') /\ (\A k \in Jobs : SnapshotComplete(k)')
    BY AccountUpload, AccountJob, AccountOther DEF Next
  <1> QED BY <1>1, <1>2 DEF AccountInv

(* When nothing but job runs may fail, no message is ever forgotten: the    *)
(* order of the three handlers - post then record, list then delete, delete *)
(* messages then the row - loses none, for any number of overlapping runs.  *)
THEOREM MessagesStayAccounted ==
  ASSUME Faults \subseteq {"abort"}
  PROVE  Spec => []MessagesAccounted
  <1>1. AccountInv => MessagesAccounted
    BY DEF AccountInv, Accounted, MessagesAccounted
  <1> QED BY <1>1, AccountInit, AccountStep, PTL DEF Spec

-----------------------------------------------------------------------------
(* 5. The lifecycle implements DeferredDeletes                              *)

(* No message of an upload is ahead of the chunk it is at, so the next one  *)
(* it posts is new.                                                         *)
Fresh(f) ==
    /\ pc[f] \in {"idle", "stream"} => \A i \in msgs[f] : i < sent[f]
    /\ pc[f] = "record" => \A i \in msgs[f] : i <= sent[f]

(* What was handed over, and what was parked, is of a doomed file, to which *)
(* no upload posts again.                                                   *)
DeleteInv ==
    /\ Inv
    /\ \A f \in Files : Fresh(f) /\ (dead[f] # {} => Doomed(f))

LEMMA DeleteInit == Init => DeleteInv
  BY InvInit DEF Init, DeleteInv, Fresh

LEMMA FreshUpload ==
  ASSUME Inv, NEW f \in Files, Fresh(f), NEW g \in Files, Upload(g)
  PROVE  Fresh(f)'
  <1> USE ConstantsAssumption DEF Fresh, Goto, fileVars, uploadVars, jobVars, queueVars
  <1>0. /\ TypeOK /\ sent[f] \in Nat /\ msgs[f] \subseteq Nat
    BY DEF Inv, TypeOK, Index
  <1>1. CASE g # f
    <2>1. pc'[f] = pc[f] /\ sent'[f] = sent[f] /\ msgs'[f] = msgs[f]
      BY <1>0, <1>1
      DEF TypeOK, Upload, UploadInsert, UploadSend, UploadRecord, UploadCommitChunks,
          UploadCommitFile, UploadFails, SendReplyLost, RecordFails
    <2> QED BY <2>1
  <1>2. CASE g = f
    <2> USE <1>0, <1>2 DEF TypeOK
    <2>1. CASE UploadInsert(f)        BY <2>1 DEF UploadInsert
    <2>2. CASE UploadSend(f)
      <3>1. msgs'[f] = msgs[f] \union {sent[f]} /\ sent' = sent /\ pc'[f] = "record"
        BY <2>2 DEF UploadSend
      <3>2. \A i \in msgs[f] : i < sent[f]
        BY <2>2 DEF UploadSend
      <3> QED BY <3>1, <3>2
    <2>3. CASE UploadRecord(f)
      <3>1. /\ msgs' = msgs
            /\ \/ pc'[f] = "stream" /\ sent'[f] = sent[f] + 1
               \/ pc'[f] = "failed"
        BY <2>3 DEF UploadRecord
      <3>2. \A i \in msgs[f] : i <= sent[f]
        BY <2>3 DEF UploadRecord
      <3> QED BY <3>1, <3>2
    <2>4. CASE pc'[f] \in {"commit", "done", "failed"}
      BY <2>4
    <2> QED
      BY <1>2, <2>1, <2>2, <2>3, <2>4
      DEF Upload, UploadCommitChunks, UploadCommitFile, UploadFails, SendReplyLost,
          RecordFails
  <1> QED BY <1>1, <1>2

(* Every other step only takes messages away, and at most ends uploads.     *)
LEMMA FreshStep ==
  ASSUME Inv, [Next]_vars, NEW f \in Files, Fresh(f)
  PROVE  Fresh(f)'
  <1> USE DEF fileVars, uploadVars, jobVars, queueVars
  <1>0. TypeOK
    BY DEF Inv
  <1>1. CASE \E g \in Files : Upload(g)
    BY <1>1, FreshUpload
  <1>2. ASSUME UNCHANGED <<pc, sent>>, msgs'[f] \subseteq msgs[f]
        PROVE  Fresh(f)'
    BY <1>2 DEF Fresh
  <1>3. CASE UNCHANGED <<pc, sent, msgs>>
    BY <1>2, <1>3
  <1>4. ASSUME NEW j \in Jobs, NEW i \in Index, JobMessage(j, i) PROVE Fresh(f)'
    <2>1. UNCHANGED <<pc, sent>>
      BY <1>4 DEF JobMessage, JobDeleteMessage, JobDeferMessage, JobSkipMessage
    <2>2. msgs' = msgs \/ msgs' = [msgs EXCEPT ![target[j]] = msgs[target[j]] \ {i}]
      BY <1>4 DEF JobMessage, JobDeleteMessage, JobDeferMessage, JobSkipMessage
    <2>3. msgs'[f] \subseteq msgs[f]
      BY <1>0, <2>2 DEF TypeOK
    <2> QED BY <1>2, <2>1, <2>3
  <1>5. ASSUME NEW g \in Files, NEW i \in Index, RetryDelivers(g, i) PROVE Fresh(f)'
    BY <1>0, <1>2, <1>5 DEF TypeOK, RetryDelivers
  <1>6. CASE Crash
    BY <1>0, <1>6 DEF TypeOK, Crash, Uploading, Fresh
  <1>7. \/ UNCHANGED <<pc, sent, msgs>>
        \/ \E g \in Files : Upload(g)
        \/ \E j \in Jobs, i \in Index : JobMessage(j, i)
        \/ \E g \in Files, i \in Index : RetryDelivers(g, i)
        \/ Crash
    BY DEF Next, vars, Age, Delete, DeleteLoad, DeleteMark, DeleteFails, JobStep,
           JobFind, JobList, JobDeleteRow, JobAbort, Retry, RetryGivesUp, RetryDropped
  <1> QED BY <1>1, <1>3, <1>4, <1>5, <1>6, <1>7

LEMMA DeleteInvStep ==
  ASSUME "slow" \notin Faults, DeleteInv, [Next]_vars
  PROVE  DeleteInv'
  <1>0. Inv /\ TypeOK /\ Inv'
    BY InvStep DEF DeleteInv, Inv
  <1>1. ASSUME NEW f \in Files PROVE Fresh(f)'
    BY <1>0, FreshStep DEF DeleteInv
  <1>2. ASSUME NEW f \in Files, dead'[f] # {} PROVE Doomed(f)'
    <2>1. dead[f] # {} \/ owed[f] # {}
      <3>1. CASE UNCHANGED dead
        BY <1>2, <3>1
      <3>2. ASSUME NEW g \in Files, NEW i \in Index, RetryGivesUp(g, i)
            PROVE  dead[f] # {} \/ owed[f] # {}
        BY <1>0, <1>2, <3>2 DEF TypeOK, RetryGivesUp
      <3>3. UNCHANGED dead \/ \E g \in Files, i \in Index : RetryGivesUp(g, i)
        BY DEF Next, vars, Upload, UploadInsert, UploadSend, UploadRecord,
               UploadCommitChunks, UploadCommitFile, UploadFails, SendReplyLost,
               RecordFails, Age, Delete, DeleteLoad, DeleteMark, DeleteFails, JobStep,
               JobFind, JobList, JobMessage, JobDeleteMessage, JobDeferMessage,
               JobSkipMessage, JobDeleteRow, JobAbort, Retry, RetryDelivers,
               RetryDropped, Crash, queueVars
      <3> QED BY <3>1, <3>2, <3>3
    <2>2. Doomed(f)
      BY <2>1 DEF DeleteInv, Inv, FileInv
    <2> QED BY <1>0, <2>2, DoomedStable
  <1> QED BY <1>0, <1>1, <1>2 DEF DeleteInv

(* Adding a chunk to one file's set adds one pair, taking it takes one.     *)
LEMMA PairIn ==
  ASSUME NEW at, NEW f \in Files, NEW i \in Index
  PROVE  <<f, i>> \in Files \X Index /\ (<<f, i>> \in Pairs(at) <=> i \in at[f])
  BY DEF Pairs

LEMMA PairsPlus ==
  ASSUME NEW at \in [Files -> SUBSET Index], NEW f \in Files, NEW i \in Index
  PROVE  Pairs([at EXCEPT ![f] = at[f] \union {i}]) = Pairs(at) \union {<<f, i>>}
  <1> DEFINE more == [at EXCEPT ![f] = at[f] \union {i}]
  <1>1. ASSUME NEW m \in Files \X Index
        PROVE  m \in Pairs(more) <=> m \in Pairs(at) \union {<<f, i>>}
    <2>1. PICK g \in Files, k \in Index : m = <<g, k>>
      BY <1>1
    <2>2. k \in more[g] <=> k \in at[g] \/ (g = f /\ k = i)
      OBVIOUS
    <2> QED BY <2>1, <2>2 DEF Pairs
  <1> QED BY <1>1 DEF Pairs

LEMMA PairsMinus ==
  ASSUME NEW at \in [Files -> SUBSET Index], NEW f \in Files, NEW i \in Index
  PROVE  Pairs([at EXCEPT ![f] = at[f] \ {i}]) = Pairs(at) \ {<<f, i>>}
  <1> DEFINE less == [at EXCEPT ![f] = at[f] \ {i}]
  <1>1. ASSUME NEW m \in Files \X Index
        PROVE  m \in Pairs(less) <=> m \in Pairs(at) \ {<<f, i>>}
    <2>1. PICK g \in Files, k \in Index : m = <<g, k>>
      BY <1>1
    <2>2. k \in less[g] <=> k \in at[g] /\ ~(g = f /\ k = i)
      OBVIOUS
    <2> QED BY <2>1, <2>2 DEF Pairs
  <1> QED BY <1>1 DEF Pairs

LEMMA DeletesStep ==
  ASSUME "drop" \notin Faults, DeleteInv, [Next]_vars
  PROVE  [Deletes!Next]_<<Pairs(msgs), Pairs(owed), Pairs(dead)>>
  <1> DEFINE L == Pairs(msgs)
             O == Pairs(owed)
             D == Pairs(dead)
  <1> USE DEF fileVars, uploadVars, jobVars, queueVars
  <1>0. /\ TypeOK /\ \A f \in Files : FileInv(f)
    BY DEF DeleteInv, Inv
  <1>m. msgs \in [Files -> SUBSET Index]
    BY <1>0 DEF TypeOK
  <1>o. owed \in [Files -> SUBSET Index]
    BY <1>0 DEF TypeOK
  <1>d. dead \in [Files -> SUBSET Index]
    BY <1>0 DEF TypeOK
  <1>p. ASSUME NEW f \in Files, NEW i \in Index
        PROVE  /\ Pairs([msgs EXCEPT ![f] = msgs[f] \union {i}]) = L \union {<<f, i>>}
               /\ Pairs([msgs EXCEPT ![f] = msgs[f] \ {i}]) = L \ {<<f, i>>}
               /\ Pairs([owed EXCEPT ![f] = owed[f] \union {i}]) = O \union {<<f, i>>}
               /\ Pairs([owed EXCEPT ![f] = owed[f] \ {i}]) = O \ {<<f, i>>}
               /\ Pairs([dead EXCEPT ![f] = dead[f] \union {i}]) = D \union {<<f, i>>}
               /\ <<f, i>> \in Files \X Index
               /\ <<f, i>> \in L <=> i \in msgs[f]
               /\ <<f, i>> \in O <=> i \in owed[f]
               /\ <<f, i>> \in D <=> i \in dead[f]
    <2>1. /\ Pairs([msgs EXCEPT ![f] = msgs[f] \union {i}]) = L \union {<<f, i>>}
          /\ Pairs([owed EXCEPT ![f] = owed[f] \union {i}]) = O \union {<<f, i>>}
          /\ Pairs([dead EXCEPT ![f] = dead[f] \union {i}]) = D \union {<<f, i>>}
      <3>1. Pairs([msgs EXCEPT ![f] = msgs[f] \union {i}]) = L \union {<<f, i>>}
        BY <1>m, PairsPlus
      <3>2. Pairs([owed EXCEPT ![f] = owed[f] \union {i}]) = O \union {<<f, i>>}
        BY <1>o, PairsPlus
      <3>3. Pairs([dead EXCEPT ![f] = dead[f] \union {i}]) = D \union {<<f, i>>}
        BY <1>d, PairsPlus
      <3> QED BY <3>1, <3>2, <3>3
    <2>2. /\ Pairs([msgs EXCEPT ![f] = msgs[f] \ {i}]) = L \ {<<f, i>>}
          /\ Pairs([owed EXCEPT ![f] = owed[f] \ {i}]) = O \ {<<f, i>>}
      <3>1. Pairs([msgs EXCEPT ![f] = msgs[f] \ {i}]) = L \ {<<f, i>>}
        BY <1>m, PairsMinus
      <3>2. Pairs([owed EXCEPT ![f] = owed[f] \ {i}]) = O \ {<<f, i>>}
        BY <1>o, PairsMinus
      <3> QED BY <3>1, <3>2
    <2> QED BY <2>1, <2>2, PairIn
  <1>1. CASE UNCHANGED <<msgs, owed, dead>>
    BY <1>1
  <1>2. ASSUME NEW f \in Files, UploadSend(f) \/ SendReplyLost(f)
        PROVE  Deletes!Next
    <2>1. /\ msgs' = [msgs EXCEPT ![f] = msgs[f] \union {sent[f]}]
          /\ UNCHANGED <<owed, dead>> /\ pc[f] = "stream" /\ sent[f] < ChunkCount[f]
      BY <1>2 DEF UploadSend, SendReplyLost
    <2>2. sent[f] \in Index
      <3>1. sent[f] \in Nat /\ ChunkCount[f] \in 0 .. MaxChunks /\ MaxChunks \in Nat
        BY <1>0, ConstantsAssumption DEF TypeOK
      <3> QED BY <2>1, <3>1 DEF Index
    <2>3. sent[f] \notin msgs[f]
      BY <1>0, <2>1, <2>2 DEF DeleteInv, Fresh, Index
    <2>4. owed[f] = {} /\ dead[f] = {}
      BY <1>0, <2>1 DEF DeleteInv, FileInv, UploadInv, Uploading, Doomed
    <2>5. <<f, sent[f]>> \in Files \X Index /\ <<f, sent[f]>> \notin L \union O \union D
      BY <2>2, <2>3, <2>4, <1>p
    <2>6. L' = L \union {<<f, sent[f]>>} /\ O' = O /\ D' = D
      BY <2>1, <2>2, <1>p
    <2> QED BY <2>5, <2>6 DEF Deletes!Next, Deletes!Post
  <1>3. ASSUME NEW j \in Jobs, NEW i \in Index, JobDeleteMessage(j, i)
        PROVE  Deletes!Next
    <2>1. PICK f \in Files : target[j] = f
      BY <1>0, <1>3 DEF TypeOK, JobDeleteMessage, NextToDelete
    <2>2. msgs' = [msgs EXCEPT ![f] = msgs[f] \ {i}] /\ UNCHANGED <<owed, dead>>
      BY <1>3, <2>1 DEF JobDeleteMessage
    <2>3. <<f, i>> \in Files \X Index /\ L' = L \ {<<f, i>>} /\ O' = O /\ D' = D
      BY <2>2, <1>p
    <2> QED BY <2>3 DEF Deletes!Next, Deletes!Delete
  <1>4. ASSUME NEW j \in Jobs, NEW i \in Index, JobDeferMessage(j, i)
        PROVE  Deletes!Next
    <2>1. PICK f \in Files : target[j] = f
      BY <1>0, <1>4 DEF TypeOK, JobDeferMessage, NextToDelete
    <2>2. /\ msgs' = msgs \/ msgs' = [msgs EXCEPT ![f] = msgs[f] \ {i}]
          /\ owed' = [owed EXCEPT ![f] = owed[f] \union {i}]
          /\ UNCHANGED dead
      BY <1>4, <2>1 DEF JobDeferMessage
    <2>3. /\ <<f, i>> \in Files \X Index
          /\ L' = L \/ L' = L \ {<<f, i>>}
          /\ O' = O \union {<<f, i>>} /\ D' = D
      BY <2>2, <1>p
    <2> QED BY <2>3 DEF Deletes!Next, Deletes!Defer
  <1>5. ASSUME NEW f \in Files, NEW i \in Index, RetryDelivers(f, i)
        PROVE  Deletes!Next
    <2>1. /\ i \in owed[f]
          /\ msgs' = [msgs EXCEPT ![f] = msgs[f] \ {i}]
          /\ owed' = owed \/ owed' = [owed EXCEPT ![f] = owed[f] \ {i}]
          /\ UNCHANGED dead
      BY <1>5 DEF RetryDelivers
    <2>2. /\ <<f, i>> \in Files \X Index /\ <<f, i>> \in O
          /\ L' = L \ {<<f, i>>}
          /\ O' = O \/ O' = O \ {<<f, i>>}
          /\ D' = D
      BY <2>1, <1>p
    <2> QED BY <2>2 DEF Deletes!Next, Deletes!Deliver
  <1>6. ASSUME NEW f \in Files, NEW i \in Index, RetryGivesUp(f, i)
        PROVE  Deletes!Next
    <2>1. /\ i \in owed[f]
          /\ dead' = [dead EXCEPT ![f] = dead[f] \union {i}]
          /\ owed' = owed \/ owed' = [owed EXCEPT ![f] = owed[f] \ {i}]
          /\ UNCHANGED msgs
      BY <1>6 DEF RetryGivesUp
    <2>2. /\ <<f, i>> \in Files \X Index /\ <<f, i>> \in O
          /\ D' = D \union {<<f, i>>}
          /\ O' = O \/ O' = O \ {<<f, i>>}
          /\ L' = L
      BY <2>1, <1>p
    <2> QED BY <2>2 DEF Deletes!Next, Deletes!GiveUp
  <1>7. \/ UNCHANGED <<msgs, owed, dead>>
        \/ \E f \in Files : UploadSend(f) \/ SendReplyLost(f)
        \/ \E j \in Jobs, i \in Index : JobDeleteMessage(j, i) \/ JobDeferMessage(j, i)
        \/ \E f \in Files, i \in Index : RetryDelivers(f, i) \/ RetryGivesUp(f, i)
    BY DEF Next, vars, Upload, UploadInsert, UploadRecord, UploadCommitChunks,
           UploadCommitFile, UploadFails, RecordFails, Age, Delete, DeleteLoad,
           DeleteMark, DeleteFails, JobStep, JobFind, JobList, JobMessage,
           JobSkipMessage, JobDeleteRow, JobAbort, Retry, RetryDropped, Crash
  <1> QED BY <1>1, <1>2, <1>3, <1>4, <1>5, <1>6, <1>7

(* Provided no upload outlives the sweep's age limit and no run ends with a *)
(* descriptor in hand, the lifecycle keeps to the promise of the queue: a   *)
(* message handed over stays owed until it is deleted or parked, and no     *)
(* upload posts where a delete is outstanding, whatever else fails.         *)
THEOREM DeletesImplemented ==
  ASSUME "slow" \notin Faults, "drop" \notin Faults
  PROVE  Spec => ImplementsDeletes
  <1>1. Init => Deletes!Init
    BY DEF Init, Deletes!Init, Pairs
  <1>2. Spec => []DeleteInv
    BY DeleteInit, DeleteInvStep, PTL DEF Spec
  <1> QED
    BY <1>1, <1>2, DeletesStep, PTL DEF Spec, ImplementsDeletes, Deletes!Spec
=============================================================================
