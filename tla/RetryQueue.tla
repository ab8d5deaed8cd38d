------------------------------ MODULE RetryQueue ------------------------------
(****************************************************************************)
(* The retry queue (rate_limit/queue.py) between those that fill it - the   *)
(* Telegram transport (telegram/transport.py) and the cleanup jobs - and    *)
(* the runs that drain it (jobs/service.py process_retries).                *)
(*                                                                          *)
(* The ready list and the dead-letter list are Redis lists: each rpush or   *)
(* lpop is one atomic call, and nothing else is.  An item is a message to   *)
(* delete or a piece to post; a descriptor is an item with the number of    *)
(* failures recorded on it.                                                 *)
(****************************************************************************)
EXTENDS Integers, Sequences

CONSTANTS
    Messages,       \* messages to delete
    Pieces,         \* chunks to post
    Drains,         \* process_retries calls that may overlap
    MaxAttempts,    \* DEFAULT_MAX_ATTEMPTS, 5 in the code
    RetryBatch,     \* DEFAULT_RETRY_BATCH, 100 in the code
    MaxTransient,   \* bound on transient failures: Telegram works again after them
    MaxDeaths       \* bound on processes that die between two calls

Items == Messages \union Pieces

ASSUME ConstantsAssumption ==
    /\ Messages \intersect Pieces = {}
    /\ MaxAttempts \in Nat \ {0}
    /\ RetryBatch \in Nat \ {0}
    /\ MaxTransient \in Nat
    /\ MaxDeaths \in Nat

VARIABLES
    ready,      \* the ready list
    dead,       \* items named in the dead-letter list
    effected,   \* items Telegram has acted on
    inline,     \* where the first, inline attempt of each item is
    drain,      \* where each drain is
    left,       \* how many more descriptors it may take
    job,        \* the descriptor it holds
    transients, \* transient failures so far
    fails,      \* how many replays of an item have failed (history)
    deaths,     \* processes that died so far
    lost        \* items of which a run that died held a descriptor (history)

drainVars == <<drain, left, job>>
deathVars == <<deaths, lost>>
vars == <<ready, dead, effected, inline, drainVars, transients, fails, deathVars>>

Descriptor == [item : Items, attempts : 0 .. (MaxAttempts - 1)]

TypeOK ==
    /\ ready \in Seq(Descriptor)
    /\ dead \subseteq Items
    /\ effected \subseteq Items
    /\ inline \in [Items -> {"idle", "requeue", "handover", "deferred", "done"}]
    /\ drain \in [Drains -> {"idle", "dequeue", "replay", "requeue", "fail"}]
    /\ left \in [Drains -> 0 .. RetryBatch]
    /\ job \in [Drains -> Descriptor \union {<<>>}]
    /\ \A d \in Drains :
          drain[d] \in {"replay", "requeue", "fail"} => job[d] \in Descriptor
    /\ transients \in 0 .. MaxTransient
    /\ fails \in [Items -> Nat]
    /\ deaths \in 0 .. MaxDeaths
    /\ lost \subseteq Items

Fresh(o) == [item |-> o, attempts |-> 0]

(* rpush on the ready list.                                                 *)
Push(x) == ready' = Append(ready, x)

Init ==
    /\ ready = <<>>
    /\ dead = {}
    /\ effected = {}
    /\ inline = [o \in Items |-> "idle"]
    /\ drain = [d \in Drains |-> "idle"]
    /\ left = [d \in Drains |-> 0]
    /\ job = [d \in Drains |-> <<>>]
    /\ transients = 0
    /\ fails = [o \in Items |-> 0]
    /\ deaths = 0
    /\ lost = {}

(* A transient failure: a rate budget denied before the call, or Telegram   *)
(* busy or out of reach, which may be after it has acted.                   *)
Transient(o) ==
    /\ transients < MaxTransient
    /\ transients' = transients + 1
    /\ effected' \in {effected, effected \union {o}}

(****************************************************************************)
(* The inline attempt: one message delete of a cleanup run, or one send of  *)
(* an upload.                                                               *)
(****************************************************************************)

At(o, from, to) == inline[o] = from /\ inline' = [inline EXCEPT ![o] = to]

InlineSucceeds(o) ==
    /\ At(o, "idle", "done")
    /\ effected' = effected \union {o}
    /\ UNCHANGED <<ready, dead, drainVars, transients, fails, deathVars>>

(* A permanent failure is taken as done by a cleanup run, and ends an       *)
(* upload.                                                                  *)
InlineRefused(o) ==
    /\ At(o, "idle", "done")
    /\ UNCHANGED <<ready, dead, effected, drainVars, transients, fails, deathVars>>

InlineTransient(o) ==
    /\ At(o, "idle", "requeue")
    /\ Transient(o)
    /\ UNCHANGED <<ready, dead, drainVars, fails, deathVars>>

(* Before it raises, the transport enqueues a descriptor of its own.        *)
InlineRequeue(o) ==
    /\ At(o, "requeue", IF o \in Messages THEN "handover" ELSE "deferred")
    /\ Push(Fresh(o))
    /\ UNCHANGED <<dead, effected, drainVars, transients, fails, deathVars>>

(* The cleanup run catches the error and enqueues a second one.             *)
InlineHandover(o) ==
    /\ At(o, "handover", "deferred")
    /\ Push(Fresh(o))
    /\ UNCHANGED <<dead, effected, drainVars, transients, fails, deathVars>>

(* A process dies.                                                          *)
Dies == deaths < MaxDeaths /\ deaths' = deaths + 1

(* The process ends first: before the transport's descriptor was written    *)
(* the delete is not the queue's yet; after it, it is.                      *)
InlineDies(o) ==
    /\ Dies
    /\ At(o, "requeue", "done") \/ At(o, "handover", "deferred")
    /\ UNCHANGED <<ready, dead, effected, drainVars, transients, fails, lost>>

Inline(o) ==
    \/ InlineSucceeds(o) \/ InlineRefused(o) \/ InlineTransient(o)
    \/ InlineRequeue(o) \/ InlineHandover(o) \/ InlineDies(o)

(****************************************************************************)
(* A drain: process_retries.                                                *)
(****************************************************************************)

Turn(d, from, to) == drain[d] = from /\ drain' = [drain EXCEPT ![d] = to]

(* A scheduled run begins.                                                  *)
DrainStart(d) ==
    /\ Turn(d, "idle", "dequeue")
    /\ left' = [left EXCEPT ![d] = RetryBatch]
    /\ UNCHANGED <<ready, dead, effected, inline, job, transients, fails, deathVars>>

(* The batch is used up or the list is empty.                               *)
DrainEnd(d) ==
    /\ left[d] = 0 \/ ready = <<>>
    /\ Turn(d, "dequeue", "idle")
    /\ UNCHANGED <<ready, dead, effected, inline, left, job, transients, fails, deathVars>>

(* lpop: the descriptor is now nowhere but in this run's hands.             *)
Dequeue(d) ==
    /\ left[d] > 0 /\ ready # <<>>
    /\ Turn(d, "dequeue", "replay")
    /\ job' = [job EXCEPT ![d] = Head(ready)]
    /\ ready' = Tail(ready)
    /\ left' = [left EXCEPT ![d] = @ - 1]
    /\ UNCHANGED <<dead, effected, inline, transients, fails, deathVars>>

(* _replay knows only deletes: a send is dropped with a log line.           *)
ReplayUnknown(d) ==
    /\ Turn(d, "replay", "dequeue")
    /\ job[d].item \in Pieces
    /\ UNCHANGED <<ready, dead, effected, inline, left, job, transients, fails, deathVars>>

ReplaySucceeds(d) ==
    /\ Turn(d, "replay", "dequeue")
    /\ job[d].item \in Messages \ effected
    /\ effected' = effected \union {job[d].item}
    /\ UNCHANGED <<ready, dead, inline, left, job, transients, fails, deathVars>>

Failed(d) == fails' = [fails EXCEPT ![job[d].item] = @ + 1]

(* Mutant: the transport swallows the transient failure.                    *)
ReplayTransient_Swallowed(d) ==
    /\ Turn(d, "replay", "dequeue")
    /\ job[d].item \in Messages
    /\ Transient(job[d].item)
    /\ Failed(d)
    /\ UNCHANGED <<ready, dead, inline, left, job, deathVars>>

ReplayTransient(d) ==
    /\ Turn(d, "replay", "requeue")
    /\ job[d].item \in Messages
    /\ Transient(job[d].item)
    /\ Failed(d)
    /\ UNCHANGED <<ready, dead, inline, left, job, deathVars>>

(* Mutant: a refused delete is put back as it is, nothing being counted.    *)
ReplayRefused_PutBack(d) ==
    /\ Turn(d, "replay", "dequeue")
    /\ job[d].item \in Messages
    /\ Push(job[d])
    /\ UNCHANGED <<dead, effected, inline, left, job, transients, fails, deathVars>>

(* Telegram refuses; it does so in particular when the message is already   *)
(* gone.                                                                    *)
ReplayRefused(d) ==
    /\ Turn(d, "replay", "fail")
    /\ job[d].item \in Messages
    /\ Failed(d)
    /\ UNCHANGED <<ready, dead, effected, inline, left, job, transients, deathVars>>

(* The transport that replays the delete enqueues its own descriptor here   *)
(* too, with no failure recorded on it.                                     *)
ReplayRequeue(d) ==
    /\ Turn(d, "requeue", "fail")
    /\ Push(Fresh(job[d].item))
    /\ UNCHANGED <<dead, effected, inline, left, job, transients, fails, deathVars>>

(* Mutants of mark_failed: the last attempt is never made; one attempt too  *)
(* many is; the job is not parked.                                          *)
MarkFailed_OneTooFew(d) ==
    /\ Turn(d, "fail", "dequeue")
    /\ LET attempts == job[d].attempts + 1 IN
       IF attempts >= MaxAttempts - 1
       THEN dead' = dead \union {job[d].item} /\ UNCHANGED ready
       ELSE /\ Push([item |-> job[d].item, attempts |-> attempts])
            /\ UNCHANGED dead
    /\ UNCHANGED <<effected, inline, left, job, transients, fails, deathVars>>

MarkFailed_OneTooMany(d) ==
    /\ Turn(d, "fail", "dequeue")
    /\ LET attempts == job[d].attempts + 1 IN
       IF attempts > MaxAttempts
       THEN dead' = dead \union {job[d].item} /\ UNCHANGED ready
       ELSE /\ Push([item |-> job[d].item, attempts |-> attempts])
            /\ UNCHANGED dead
    /\ UNCHANGED <<effected, inline, left, job, transients, fails, deathVars>>

MarkFailed_NotParked(d) ==
    /\ Turn(d, "fail", "dequeue")
    /\ LET attempts == job[d].attempts + 1 IN
       IF attempts >= MaxAttempts
       THEN UNCHANGED <<ready, dead>>
       ELSE /\ Push([item |-> job[d].item, attempts |-> attempts])
            /\ UNCHANGED dead
    /\ UNCHANGED <<effected, inline, left, job, transients, fails, deathVars>>

(* mark_failed: back to the end of the ready list, or parked for good once  *)
(* max_attempts failures are recorded on it.                                *)
MarkFailed(d) ==
    /\ Turn(d, "fail", "dequeue")
    /\ LET attempts == job[d].attempts + 1 IN
       IF attempts >= MaxAttempts
       THEN dead' = dead \union {job[d].item} /\ UNCHANGED ready
       ELSE /\ Push([item |-> job[d].item, attempts |-> attempts])
            /\ UNCHANGED dead
    /\ UNCHANGED <<effected, inline, left, job, transients, fails, deathVars>>

(* Whether a run has a descriptor in its hands and nowhere else.            *)
Holds(d) == drain[d] \in {"replay", "requeue", "fail"}

(* The run dies, or raises what it does not catch: a bot no longer          *)
(* configured (KeyError), Redis out of reach.  What it holds dies with it.  *)
DrainDies(d) ==
    /\ drain[d] # "idle"
    /\ Dies
    /\ drain' = [drain EXCEPT ![d] = "idle"]
    /\ lost' = IF Holds(d) THEN lost \union {job[d].item} ELSE lost
    /\ UNCHANGED <<ready, dead, effected, inline, left, job, transients, fails>>

DrainStep(d) ==
    \/ DrainStart(d) \/ DrainEnd(d) \/ Dequeue(d)
    \/ ReplayUnknown(d) \/ ReplaySucceeds(d) \/ ReplayTransient(d) \/ ReplayRefused(d)
    \/ ReplayRequeue(d) \/ MarkFailed(d)

Next ==
    \/ \E o \in Items : Inline(o)
    \/ \E d \in Drains : DrainStep(d) \/ DrainDies(d)

Spec == Init /\ [][Next]_vars

(* QStash keeps starting runs and a run that was started goes on; so does a *)
(* caller that has begun to hand a delete over.                             *)
Fairness ==
    /\ \A d \in Drains : WF_vars(DrainStep(d))
    /\ \A o \in Items : WF_vars(InlineRequeue(o)) /\ WF_vars(InlineHandover(o))

LiveSpec == Spec /\ Fairness

-----------------------------------------------------------------------------
(****************************************************************************)
(* Properties.                                                              *)
(****************************************************************************)

Queued(o) == \E i \in DOMAIN ready : ready[i].item = o

InHands(o) == \E d \in Drains : Holds(d) /\ job[d].item = o

Held(o) == Queued(o) \/ InHands(o)

Deferred(o) == inline[o] \in {"handover", "deferred"}

(* A delete handed to the queue is done, still held, or parked where an     *)
(* operator finds it, unless a run died with it in its hands:               *)
(* telegram/transport.py 19-20, rate_limit/queue.py 123-146.  (A send is    *)
(* held too, but dropped when it is replayed.)                              *)
DescriptorsKept ==
    \A o \in Messages : Deferred(o) => o \in effected \union dead \union lost \/ Held(o)

(* Nothing is parked before its attempts are used up, whichever runs made   *)
(* them (rate_limit/queue.py 40-42).                                        *)
ParkedLate == \A o \in dead : fails[o] >= MaxAttempts

Deletes == INSTANCE DeferredDeletes WITH
    live <- Messages \ effected,
    owed <- {o \in Messages : Held(o) \/ o \in lost},
    dead <- dead

(* The queue implements the promise Lifecycle.tla relies on, whatever the   *)
(* overlap of runs: in particular a descriptor that fails on its last       *)
(* attempt while another of the same message waits.  What a run that died   *)
(* took with it stays owed, and may never be delivered.                     *)
ImplementsDeletes == Deletes!Spec

(* Once Telegram works again and no run dies any more, the queue empties    *)
(* and stays empty, whatever is refused and however the runs overlap.       *)
QueueDrains == <>[](\A o \in Items : ~Held(o))
=============================================================================
