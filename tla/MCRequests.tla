----------------------------- MODULE MCRequests -----------------------------
(* Instances of Requests for TLC: Supabase adds a key, then withdraws the   *)
(* first one; the tokens are signed by an old key, a new one, and the       *)
(* shared secret.                                                           *)
EXTENDS Requests

CONSTANTS r1, r2, r3, k1, k2

KeyOf == [r \in Requests |-> CASE r = r1 -> k1 [] r = r2 -> k2 [] r = r3 -> Shared]
Sets == <<{k1}, {k1, k2}, {k2}>>
=============================================================================
