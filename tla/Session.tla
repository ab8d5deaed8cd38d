------------------------------- MODULE Session -------------------------------
(****************************************************************************)
(* The tokens of a signed-in browser (frontend/src/session.js).  Access     *)
(* tokens expire; a refresh token is exchanged at Supabase for a new pair,  *)
(* and is then worth nothing.  Callers that need a new token at the same    *)
(* time share one exchange.                                                 *)
(* A pair of tokens is the number of the exchange, or the login, it comes   *)
(* from; 0 is no token.  A reply with an access token alone is left out.    *)
(****************************************************************************)
EXTENDS Integers, FiniteSets

CONSTANTS
    Callers,    \* what may ask for a new token
    Nobody,     \* no caller
    MaxPairs    \* bound on the pairs issued

ASSUME SessionAssumption ==
    /\ Nobody \notin Callers
    /\ MaxPairs \in Nat \ {0}

VARIABLES
    access,     \* session.access
    refresh,    \* session.refresh
    inFlight,   \* the caller whose exchange is shared, if there is one
    flights,    \* the exchanges Supabase has been asked for
    issued,     \* the pairs Supabase has issued
    good,       \* the refresh tokens it still accepts
    lapsed,     \* the latest access token that has expired
    used,       \* the refresh tokens that have been exchanged
    lost        \* those of them whose exchange was never answered

tokenVars == <<access, refresh, inFlight, flights, issued, good, lapsed,
               used, lost>>

Pairs == 0 .. MaxPairs

SessionTypeOK ==
    /\ access \in Pairs /\ refresh \in Pairs
    /\ inFlight \in Callers \union {Nobody}
    /\ flights \subseteq [by : Callers, token : 1 .. MaxPairs]
    /\ issued \in Pairs /\ good \subseteq 1 .. issued /\ lapsed \in 0 .. issued
    /\ used \subseteq 1 .. issued /\ lost \subseteq used

SessionInit ==
    /\ access = 0 /\ refresh = 0
    /\ inFlight = Nobody /\ flights = {}
    /\ issued = 0 /\ good = {} /\ lapsed = 0
    /\ used = {} /\ lost = {}

(* A login, the demo, the link in a mail: setSession with a new pair,       *)
(* whatever session there is.                                               *)
Login ==
    /\ issued < MaxPairs
    /\ issued' = issued + 1
    /\ access' = issued + 1 /\ refresh' = issued + 1
    /\ good' = good \union {issued + 1}
    /\ UNCHANGED <<inFlight, flights, lapsed, used, lost>>

(* An hour has passed.                                                      *)
Lapse ==
    /\ lapsed < issued
    /\ lapsed' = issued
    /\ UNCHANGED <<access, refresh, inFlight, flights, issued, good, used, lost>>

(* clearSession.                                                            *)
ClearSession == access' = 0 /\ refresh' = 0

(* Mutant: callers do not share.                                            *)
StartExchange_Alone(c) ==
    /\ refresh # 0
    /\ inFlight' = c
    /\ flights' = flights \union {[by |-> c, token |-> refresh]}
    /\ UNCHANGED <<access, refresh, issued, good, lapsed, used, lost>>

(* refreshAccessToken with no exchange under way.                           *)
StartExchange(c) ==
    /\ inFlight = Nobody /\ refresh # 0
    /\ inFlight' = c
    /\ flights' = flights \union {[by |-> c, token |-> refresh]}
    /\ UNCHANGED <<access, refresh, issued, good, lapsed, used, lost>>

Settled(f) ==
    /\ flights' = flights \ {f}
    /\ inFlight' = IF inFlight = f.by THEN Nobody ELSE inFlight

UsedUp(f) ==
    /\ f.token \in good /\ issued < MaxPairs
    /\ issued' = issued + 1
    /\ good' = (good \ {f.token}) \union {issued + 1}
    /\ used' = used \union {f.token}

(* Supabase takes the token, and setSession takes the pair that comes back, *)
(* whatever has become of the session meanwhile.                            *)
Exchanged(f) ==
    /\ f \in flights
    /\ UsedUp(f)
    /\ access' = issued + 1 /\ refresh' = issued + 1
    /\ Settled(f)
    /\ UNCHANGED <<lapsed, lost>>

(* Refused, or it did not get there; or the token is used up and the answer *)
(* is lost.  The browser cannot tell, and keeps the token.                  *)
Unanswered(f) ==
    \/ UNCHANGED <<issued, good, used, lost>>
    \/ UsedUp(f) /\ lost' = lost \union {f.token}

NotExchanged(f) ==
    /\ f \in flights
    /\ Unanswered(f)
    /\ Settled(f)
    /\ UNCHANGED <<access, refresh, lapsed>>

-----------------------------------------------------------------------------
(****************************************************************************)
(* Properties.                                                              *)
(****************************************************************************)

(* At most one exchange is under way, the one that callers share            *)
(* (frontend/README.md 8-10), and a token that has been exchanged is sent   *)
(* again only if the answer to its exchange was lost: no login, logout or   *)
(* failure makes the browser send a token whose successor it was given.     *)
SingleFlight ==
    /\ \A f, g \in flights : f = g
    /\ \A f \in flights :
          /\ inFlight = f.by
          /\ f.token \in used => f.token \in lost
=============================================================================
