-------------------------------- MODULE Quota --------------------------------
(****************************************************************************)
(* storage_used_bytes of one account: the gate an upload passes, the charge *)
(* after it has committed and the refund of a delete (quota/service.py, as  *)
(* files/service.py upload_file and soft_delete_file call it).              *)
(*                                                                          *)
(* The gate reads and decides; the charge comes when the bytes are stored,  *)
(* so uploads that overlap do not see each other.  A refund that drives the *)
(* total below zero is put right by a second update.  Each update is one    *)
(* atomic UPDATE (adjust_storage_used, migration 0003), and other requests  *)
(* run in between.  What happens to chunks and messages is in Lifecycle.tla.*)
(****************************************************************************)
EXTENDS Integers, FiniteSets

CONSTANTS
    Files,          \* the account's files, one upload request each
    Size,           \* their sizes (size_bytes; the declared size is the size)
    Cap,            \* QUOTA_UNVERIFIED_BYTES, 500 MiB in the code
    MaxFileSize,    \* MAX_FILE_SIZE_UNVERIFIED, 30 MiB
    Parallel,       \* uploads the account's clients run at a time (3 in one
                    \* browser tab, MAX_CONCURRENT; the server sets no bound)
    Requests        \* soft-delete requests a file may receive

ASSUME ConstantsAssumption ==
    /\ Size \in [Files -> Nat]
    /\ Cap \in Nat /\ MaxFileSize \in Nat
    /\ Parallel \in Nat \ {0}

VARIABLES
    usage,          \* profiles.storage_used_bytes
    verified,       \* profiles.email_verified
    status,         \* "none" (or never committed), "committed" or "deleting"
    pc,             \* where each upload is
    del,            \* where each soft-delete request is
    deficit         \* what each refund saw below zero and has not added back

vars == <<usage, verified, status, pc, del, deficit>>

UploadSteps == {"idle", "usage", "admitted", "charge", "done", "failed"}
DeleteSteps == {"idle", "mark", "refund", "floor", "done", "failed"}

TypeOK ==
    /\ usage \in Int
    /\ verified \in BOOLEAN
    /\ status \in [Files -> {"none", "committed", "deleting"}]
    /\ pc \in [Files -> UploadSteps]
    /\ del \in [Files \X Requests -> DeleteSteps]
    /\ deficit \in [Files \X Requests -> Nat]

Init ==
    /\ usage = 0
    /\ verified = FALSE
    /\ status = [f \in Files |-> "none"]
    /\ pc = [f \in Files |-> "idle"]
    /\ del = [q \in Files \X Requests |-> "idle"]
    /\ deficit = [q \in Files \X Requests |-> 0]

InFlight == {f \in Files : pc[f] \in {"usage", "admitted", "charge"}}

Goto(f, from, to) == pc[f] = from /\ pc' = [pc EXCEPT ![f] = to]

(* The owner follows the link in the verification mail.                     *)
Verify ==
    /\ ~verified
    /\ verified' = TRUE
    /\ UNCHANGED <<usage, status, pc, del, deficit>>

(* adjust_storage_used: one UPDATE, of which the database returns the total. *)
Adjust(delta) == usage' = usage + delta

(****************************************************************************)
(* An upload.                                                               *)
(****************************************************************************)

(* get_profile: a verified account is admitted at once.                     *)
CheckProfile(f) ==
    /\ Cardinality(InFlight) < Parallel
    /\ Goto(f, "idle", IF verified THEN "admitted" ELSE "usage")
    /\ UNCHANGED <<usage, verified, status, del, deficit>>

(* Mutant: the size is not part of the sum.                                 *)
CheckUsage_WithoutSize(f) ==
    /\ Goto(f, "usage",
            IF Size[f] <= MaxFileSize /\ usage < Cap
            THEN "admitted" ELSE "failed")
    /\ UNCHANGED <<usage, verified, status, del, deficit>>

(* _read_usage and evaluate_upload: over the file cap or the total cap, the *)
(* upload is rejected.                                                      *)
CheckUsage(f) ==
    /\ Goto(f, "usage",
            IF Size[f] <= MaxFileSize /\ usage + Size[f] <= Cap
            THEN "admitted" ELSE "failed")
    /\ UNCHANGED <<usage, verified, status, del, deficit>>

(* store_upload has stored and committed the bytes, or has not.             *)
Store(f) ==
    /\ Goto(f, "admitted", "charge")
    /\ status' = [status EXCEPT ![f] = "committed"]
    /\ UNCHANGED <<usage, verified, del, deficit>>

StoreFails(f) ==
    /\ Goto(f, "admitted", "failed")
    /\ UNCHANGED <<usage, verified, status, del, deficit>>

(* Mutant: a file that is gone already is not charged.                      *)
Charge_UnlessDeleted(f) ==
    /\ Goto(f, "charge", "done")
    /\ Adjust(IF status[f] = "deleting" THEN 0 ELSE Size[f])
    /\ UNCHANGED <<verified, status, del, deficit>>

(* add_usage.                                                               *)
Charge(f) ==
    /\ Goto(f, "charge", "done")
    /\ Adjust(Size[f])
    /\ UNCHANGED <<verified, status, del, deficit>>

(* add_usage raises, or the process dies: the file is never charged.        *)
ChargeFails(f) ==
    /\ Goto(f, "charge", "failed")
    /\ UNCHANGED <<usage, verified, status, del, deficit>>

Upload(f) ==
    \/ CheckProfile(f) \/ CheckUsage(f) \/ Store(f) \/ StoreFails(f)
    \/ Charge(f) \/ ChargeFails(f)

(****************************************************************************)
(* A soft delete; q is a file and a request.                                *)
(****************************************************************************)

Step(q, from, to) == del[q] = from /\ del' = [del EXCEPT ![q] = to]

DeleteLoad(q) ==
    /\ Step(q, "idle", "mark")
    /\ status[q[1]] = "committed"
    /\ UNCHANGED <<usage, verified, status, pc, deficit>>

(* mark_deleting, whatever the status is by now.                            *)
DeleteMark(q) ==
    /\ Step(q, "mark", "refund")
    /\ status' = [status EXCEPT ![q[1]] = "deleting"]
    /\ UNCHANGED <<usage, verified, pc, deficit>>

(* Mutant: the total is left where it is.                                   *)
Refund_NoFloor(q) ==
    /\ Step(q, "refund", "done")
    /\ Adjust(-Size[q[1]])
    /\ UNCHANGED <<verified, status, pc, deficit>>

(* subtract_usage, first update; a negative result calls for the second.    *)
Refund(q) ==
    /\ Adjust(-Size[q[1]])
    /\ IF usage' < 0
       THEN Step(q, "refund", "floor") /\ deficit' = [deficit EXCEPT ![q] = -usage']
       ELSE Step(q, "refund", "done") /\ UNCHANGED deficit
    /\ UNCHANGED <<verified, status, pc>>

(* Mutant: the second update sets the total to zero.                        *)
Floor_SetToZero(q) ==
    /\ Step(q, "floor", "done")
    /\ usage' = 0
    /\ deficit' = [deficit EXCEPT ![q] = 0]
    /\ UNCHANGED <<verified, status, pc>>

(* Second update: add back the deficit the first one returned.              *)
Floor(q) ==
    /\ Step(q, "floor", "done")
    /\ Adjust(deficit[q])
    /\ deficit' = [deficit EXCEPT ![q] = 0]
    /\ UNCHANGED <<verified, status, pc>>

(* A database error or a crash ends the request at any of its updates.  The  *)
(* first one may have been made and the second not.                         *)
DeleteFails(q) ==
    /\ Step(q, "mark", "failed") \/ Step(q, "refund", "failed") \/ Step(q, "floor", "done")
    /\ UNCHANGED <<usage, verified, status, pc, deficit>>

Delete(q) == DeleteLoad(q) \/ DeleteMark(q) \/ Refund(q) \/ Floor(q) \/ DeleteFails(q)

Next ==
    \/ Verify
    \/ \E f \in Files : Upload(f)
    \/ \E q \in Files \X Requests : Delete(q)

Spec == Init /\ [][Next]_vars

-----------------------------------------------------------------------------
(****************************************************************************)
(* Properties.                                                              *)
(****************************************************************************)

(* What a set of files, or of deletes, comes to, as the number of bytes in   *)
(* them: a byte is a member and a position in it.                           *)
ByteSet(S, size) == UNION {{x} \X (1..size[x]) : x \in S}

Bytes(S, size) == Cardinality(ByteSet(S, size))

RefundSize == [q \in Files \X Requests |-> Size[q[1]]]

Committed  == {f \in Files : status[f] = "committed"}
EverStored == {f \in Files : status[f] # "none"}

(* The files whose charge was lost, and the deletes whose refund was made,  *)
(* the floor of which may have been lost.                                   *)
Uncharged == {f \in EverStored : pc[f] = "failed"}
Refunded  == {q \in Files \X Requests : del[q] \in {"floor", "done"}}
Unfloored == {q \in Refunded : del[q] = "done" /\ deficit[q] > 0}

Asked(f) == {r \in Requests : del[<<f, r>>] # "idle"}

AskedOnce == \A f \in Files : \A r, s \in Asked(f) : r = s

Settled ==
    /\ \A f \in Files : pc[f] # "charge"
    /\ \A q \in Files \X Requests : del[q] \notin {"refund", "floor"}

(* usage is below zero only while a refund that will lift it again is under *)
(* way, however many refunds and charges overlap, or if its second update   *)
(* was lost (quota/service.py 112-117).                                     *)
FloorPending ==
    usage < 0 =>
        \E q \in Files \X Requests :
           (del[q] = "floor" \/ q \in Unfloored) /\ usage + deficit[q] >= 0

(* However refunds, floors and charges overlap or are lost, they err only   *)
(* upwards: with no call under way, what the account is charged for and what*)
(* its deletes have refunded, with the files never charged, cover all it    *)
(* ever stored.  So a lost charge costs its file, a repeated delete what it *)
(* refunds again, and nothing costs more.                                   *)
RefundsAddUp ==
    Settled =>
        usage + Bytes(Refunded, RefundSize) + Bytes(Uncharged, Size)
            >= Bytes(EverStored, Size)

(* If no file is deleted twice, the account is charged for at least what it *)
(* stores, but for the files whose charge was lost.                         *)
NeverUndercharged ==
    Settled /\ AskedOnce =>
        usage + Bytes(Uncharged, Size) >= Bytes(Committed, Size)

(* An unverified account that only uploads, a few at a time, exceeds its    *)
(* cap by no more than the other uploads of one batch.  (A delete breaks    *)
(* even this: the total it leaves may be too low, see above.)               *)
OvershootBounded ==
    ~verified /\ (\A f \in Files : Asked(f) = {})
        => usage <= Cap + (Parallel - 1) * MaxFileSize
=============================================================================
