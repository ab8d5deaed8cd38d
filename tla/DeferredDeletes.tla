--------------------------- MODULE DeferredDeletes ---------------------------
(****************************************************************************)
(* What the retry queue promises the cleanup jobs: a message whose delete   *)
(* was handed to it stays owed until the message is gone or the delete has  *)
(* been parked in the dead-letter list; it is never just forgotten.         *)
(*                                                                          *)
(* RetryQueue.tla, the queue with its descriptors, attempts and concurrent  *)
(* drains, implements it, and so does Lifecycle.tla, which relies on it     *)
(* without the detail.                                                      *)
(****************************************************************************)

CONSTANT Messages

VARIABLES
    live,       \* messages in the Telegram channels
    owed,       \* messages the queue still has a delete for
    dead        \* messages a parked delete names

Init == live \subseteq Messages /\ owed = {} /\ dead = {}

Post(m) ==
    /\ m \notin live \union owed \union dead
    /\ live' = live \union {m}
    /\ UNCHANGED <<owed, dead>>

Delete(m) ==
    /\ live' = live \ {m}
    /\ UNCHANGED <<owed, dead>>

Defer(m) ==
    /\ live' \in {live, live \ {m}}
    /\ owed' = owed \union {m}
    /\ UNCHANGED dead

Deliver(m) ==
    /\ m \in owed
    /\ live' = live \ {m}
    /\ owed' \in {owed, owed \ {m}}
    /\ UNCHANGED dead

GiveUp(m) ==
    /\ m \in owed
    /\ dead' = dead \union {m}
    /\ owed' \in {owed, owed \ {m}}
    /\ UNCHANGED live

Next ==
    \E m \in Messages :
        Post(m) \/ Delete(m) \/ Defer(m) \/ Deliver(m) \/ GiveUp(m)

Spec == Init /\ [][Next]_<<live, owed, dead>>
=============================================================================
