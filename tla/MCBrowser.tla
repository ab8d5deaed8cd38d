----------------------------- MODULE MCBrowser -----------------------------
(* An instance of Browser for TLC: a download and an upload that share one  *)
(* slot, and the logout.  A click takes the steps of a download's request.  *)
EXTENDS Browser

CONSTANTS d1, u1, out

KindOf == [c \in Callers |-> CASE c = d1 -> "download" [] c = u1 -> "upload"
                               [] c = out -> "logout"]
=============================================================================
