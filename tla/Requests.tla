------------------------------ MODULE Requests ------------------------------
(****************************************************************************)
(* A signed-in request on the server: its token is verified (KeyCache), and *)
(* then the profile and the handler's rows are read with clients borrowed   *)
(* one after the other (ClientPool), as auth/dependencies.py and every      *)
(* handler do.                                                              *)
(****************************************************************************)
EXTENDS KeyCache, ClientPool

ASSUME RequestsAssumption == Borrowers \subseteq Requests

vars == <<keyVars, poolVars>>

TypeOK == KeyTypeOK /\ PoolTypeOK

Init == KeyInit /\ PoolInit

(* _load_profile and the handlers: only for a verified token.               *)
UseDatabase(r) ==
    /\ r \in Borrowers
    /\ verify[r] = "verified"
    /\ LeaseStep(r)
    /\ UNCHANGED keyVars

(* A handler gives its client back, in a finally, before it answers.        *)
Respond(r) ==
    /\ r \in Borrowers => lease[r] = "none"
    /\ Answered(r)
    /\ UNCHANGED poolVars

Next ==
    \/ Rotate /\ UNCHANGED poolVars
    \/ CloseStep /\ UNCHANGED keyVars
    \/ \E r \in Requests :
          \/ (Arrive(r) \/ KeyStep(r)) /\ UNCHANGED poolVars
          \/ UseDatabase(r) \/ Respond(r)

Spec == Init /\ [][Next]_vars

(* The event loop runs what can run, and each fetch ends.                   *)
Fairness == \A r \in Requests : WF_vars(KeyStep(r) /\ UNCHANGED poolVars)

LiveSpec == Spec /\ Fairness
=============================================================================
