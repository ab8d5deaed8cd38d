------------------------------ MODULE FileStore ------------------------------
(****************************************************************************)
(* What TeleCloud promises the owner of a file, with no chunk, message, row *)
(* or job in sight.  A file is uploaded, becomes available all at once,     *)
(* stays available until its owner removes it, and is then erased.  An      *)
(* upload that never finishes is erased without having been available.      *)
(*                                                                          *)
(* Lifecycle.tla is shown to implement this specification: there,           *)
(* "available" means that every chunk row and every Telegram message the    *)
(* file needs is in place.                                                  *)
(****************************************************************************)

CONSTANT Files          \* ids of files rows; an id is never used twice

VARIABLE phase          \* what the owner may rely on, per file

Init == phase = [f \in Files |-> "absent"]

Turn(f, from, to) ==
    /\ phase[f] = from
    /\ phase' = [phase EXCEPT ![f] = to]

Begin(f)   == Turn(f, "absent", "uploading")
Publish(f) == Turn(f, "uploading", "available")
Remove(f)  == Turn(f, "available", "removed")
Discard(f) == Turn(f, "uploading", "erased")
Erase(f)   == Turn(f, "removed", "erased")

Next ==
    \E f \in Files :
        Begin(f) \/ Publish(f) \/ Remove(f) \/ Discard(f) \/ Erase(f)

Spec == Init /\ [][Next]_phase

(* The live store also finishes every removal.                              *)
LiveSpec == Spec /\ \A f \in Files : WF_phase(Erase(f))
=============================================================================
