------------------------------ MODULE Transfers ------------------------------
(****************************************************************************)
(* The transfer panel of the browser (frontend/src/transfers.js): uploads   *)
(* and downloads wait in one queue for one of a few slots.  A slot is taken *)
(* by pump and given back by finish, which a callback of the transfer has   *)
(* to reach exactly once.                                                   *)
(****************************************************************************)
EXTENDS Integers, Sequences, FiniteSets

CONSTANTS
    Jobs,           \* the transfers
    MaxConcurrent   \* MAX_CONCURRENT

ASSUME TransfersAssumption ==
    /\ IsFiniteSet(Jobs)
    /\ MaxConcurrent \in Nat \ {0}

VARIABLES
    waiting,    \* queue
    active,     \* the slots that are taken
    status      \* of each job; "new" is one that is not in the panel

slotVars == <<waiting, active, status>>

SlotTypeOK ==
    /\ waiting \in Seq(Jobs)
    /\ active \in 0 .. MaxConcurrent
    /\ status \in [Jobs -> {"new", "queued", "running", "done", "error"}]

SlotInit ==
    /\ waiting = <<>>
    /\ active = 0
    /\ status = [j \in Jobs |-> "new"]

(* Mutant: one slot too many.                                               *)
Pump_OneMore(q, n, s) ==
    LET free == MaxConcurrent - n + 1
        taken == IF free < Len(q) THEN free ELSE Len(q)
    IN  /\ waiting' = SubSeq(q, taken + 1, Len(q))
        /\ active' = n + taken
        /\ status' = [j \in Jobs |->
                IF \E i \in 1 .. taken : q[i] = j THEN "running" ELSE s[j]]

(* pump, after the queue, the count and the statuses have become q, n and   *)
(* s: the jobs at the head of the queue take the slots there are.           *)
Pump(q, n, s) ==
    LET free == MaxConcurrent - n
        taken == IF free < Len(q) THEN free ELSE Len(q)
    IN  /\ waiting' = SubSeq(q, taken + 1, Len(q))
        /\ active' = n + taken
        /\ status' = [j \in Jobs |->
                IF \E i \in 1 .. taken : q[i] = j THEN "running" ELSE s[j]]

(* startUpload and startDownload, with enqueue.                             *)
Enqueue(j) ==
    /\ status[j] = "new"
    /\ Pump(Append(waiting, j), active, [status EXCEPT ![j] = "queued"])

(* Mutant: the slot is kept.                                                *)
Finish_SlotKept(j, result) ==
    /\ status[j] = "running"
    /\ Pump(waiting, active, [status EXCEPT ![j] = result])

(* finish, from whichever callback.                                         *)
Finish(j, result) ==
    /\ status[j] = "running"
    /\ Pump(waiting, active - 1, [status EXCEPT ![j] = result])

(* clearFinishedTransfers: nothing is cleared while anything runs.          *)
Clear ==
    /\ \A j \in Jobs : status[j] \notin {"queued", "running"}
    /\ \E j \in Jobs : status[j] # "new"
    /\ status' = [j \in Jobs |-> "new"]
    /\ UNCHANGED <<waiting, active>>

SlotNext ==
    \/ Clear
    \/ \E j \in Jobs : Enqueue(j) \/ \E result \in {"done", "error"} : Finish(j, result)

SlotSpec == SlotInit /\ [][SlotNext]_slotVars

-----------------------------------------------------------------------------
(****************************************************************************)
(* Properties.                                                              *)
(****************************************************************************)

Running == {j \in Jobs : status[j] = "running"}

(* No slot leaks and none is given twice: the count is the number of jobs   *)
(* that run, the queue holds the jobs that wait, each once, and no job      *)
(* waits while a slot is free (frontend/README.md 21-22).                   *)
SlotsExact ==
    /\ active = Cardinality(Running)
    /\ \A j \in Jobs : status[j] = "queued" <=> \E i \in DOMAIN waiting : waiting[i] = j
    /\ \A i, k \in DOMAIN waiting : waiting[i] = waiting[k] => i = k
    /\ waiting # <<>> => active = MaxConcurrent
=============================================================================
