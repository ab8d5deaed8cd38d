------------------------------- MODULE Browser -------------------------------
(****************************************************************************)
(* One tab of the browser: API requests (frontend/src/api.js) made by       *)
(* clicks, by downloads and by the logout, and uploads, which send on their *)
(* own; all of them with the tokens of Session, the transfers in the slots  *)
(* of Transfers.  A request refreshes the tokens when they are about to     *)
(* expire or when it was answered 401, is sent again once after that, and   *)
(* is retried a few times when it fails for a moment.                       *)
(****************************************************************************)
EXTENDS Transfers, Session

CONSTANTS
    Kind,       \* what each caller is
    Retries     \* how often a request is retried: 2, for a logout 0

ASSUME BrowserAssumption ==
    /\ Kind \in [Callers -> {"upload", "download", "click", "logout"}]
    /\ Jobs = {c \in Callers : Kind[c] \in {"upload", "download"}}
    /\ Retries \in Nat

VARIABLES
    phase,      \* where each caller is
    bearer,     \* the access token it was sent with
    attempt     \* the retries it has had

vars == <<slotVars, tokenVars, phase, bearer, attempt>>

TypeOK ==
    /\ SlotTypeOK /\ SessionTypeOK
    /\ phase \in [Callers -> {"idle", "prepared", "renewing first", "begun", "renewing",
                              "ready", "sent", "renewing again", "ready again",
                              "sent again", "succeeded", "failed"}]
    /\ bearer \in [Callers -> Pairs]
    /\ attempt \in [Callers -> 0 .. Retries]

Init ==
    /\ SlotInit /\ SessionInit
    /\ phase = [c \in Callers |-> "idle"]
    /\ bearer = [c \in Callers |-> 0]
    /\ attempt = [c \in Callers |-> 0]

Goes(c, from, to) == phase[c] = from /\ phase' = [phase EXCEPT ![c] = to]

RetriesOf(c) == IF Kind[c] = "logout" THEN 0 ELSE Retries

(* A click, while it is not still busy; job.run, as soon as it has a slot;  *)
(* handleLogout, if there is an access token.  A download looks at the      *)
(* tokens before it makes its request, which looks at them again.           *)
Begin(c) ==
    /\ CASE c \in Jobs -> status[c] = "running"
         [] Kind[c] = "logout" -> access # 0
         [] OTHER -> TRUE
    /\ Goes(c, "idle", IF Kind[c] = "download" THEN "prepared" ELSE "begun")
    /\ UNCHANGED <<slotVars, tokenVars, bearer, attempt>>

(* needsRefreshSoon: a clock decides, if there is a refresh token.          *)
NoNeed(c) ==
    /\ Goes(c, "prepared", "begun") \/ Goes(c, "begun", "ready")
    /\ UNCHANGED <<slotVars, tokenVars, bearer, attempt>>

(* refreshAccessToken, one exchange for all who want it.                    *)
ShareExchange(c) ==
    \/ StartExchange(c)
    \/ inFlight # Nobody /\ UNCHANGED tokenVars

NeedsRefresh(c) ==
    /\ refresh # 0
    /\ Goes(c, "prepared", "renewing first") \/ Goes(c, "begun", "renewing")
    /\ ShareExchange(c)
    /\ UNCHANGED <<slotVars, bearer, attempt>>

(* bareFetch, or xhr.send.                                                  *)
Send(c) ==
    /\ \/ Goes(c, "ready", "sent")
       \/ Goes(c, "ready again", "sent again")
    /\ bearer' = [bearer EXCEPT ![c] = access]
    /\ UNCHANGED <<slotVars, tokenVars, attempt>>

Flying(c) == phase[c] \in {"sent", "sent again"}
Becomes(c, to) == phase' = [phase EXCEPT ![c] = to]

(* The server accepts a token by its signature and its expiry alone.  A     *)
(* logout ends the session at Supabase.                                     *)
Succeeds(c) ==
    /\ Flying(c) /\ bearer[c] > lapsed
    /\ Becomes(c, "succeeded")
    /\ IF Kind[c] = "logout"
         THEN /\ good' = good \ {refresh}
              /\ UNCHANGED <<access, refresh, inFlight, flights, issued, lapsed, used, lost>>
         ELSE UNCHANGED tokenVars
    /\ UNCHANGED <<slotVars, bearer, attempt>>

(* A network error, a timeout, a 502, 503 or 504.  When the request sent    *)
(* again after a refresh gets no answer, the inner catch takes that for a   *)
(* lost session.                                                            *)
FailsForNow(c) ==
    /\ Flying(c)
    /\ \/ /\ Kind[c] # "upload" /\ attempt[c] < RetriesOf(c)
          /\ attempt' = [attempt EXCEPT ![c] = @ + 1]
          /\ Becomes(c, "ready")
          /\ UNCHANGED tokenVars
       \/ /\ Kind[c] = "upload" \/ attempt[c] = RetriesOf(c)
          /\ Becomes(c, "failed")
          /\ UNCHANGED <<tokenVars, attempt>>
       \/ /\ phase[c] = "sent again"
          /\ Becomes(c, "failed")
          /\ ClearSession
          /\ UNCHANGED <<inFlight, flights, issued, good, lapsed, used, lost, attempt>>
    /\ UNCHANGED <<slotVars, bearer>>

(* Refused for good: a 4xx other than 401, a 500.                           *)
Fails(c) ==
    /\ Flying(c)
    /\ Becomes(c, "failed")
    /\ UNCHANGED <<slotVars, tokenVars, bearer, attempt>>

(* 401: the token has expired, or the server could not check it.            *)
Unauthorized(c) ==
    /\ phase[c] = "sent" /\ Kind[c] # "upload" /\ refresh # 0
    /\ Becomes(c, "renewing again")
    /\ ShareExchange(c)
    /\ UNCHANGED <<slotVars, bearer, attempt>>

(* ... and there is nothing to refresh with, or that was done already:      *)
(* clearSession and authLostHandler.  An upload only reports it.            *)
LosesSession(c) ==
    /\ Flying(c) /\ Kind[c] # "upload"
    /\ phase[c] = "sent" => refresh = 0
    /\ Becomes(c, "failed")
    /\ ClearSession
    /\ UNCHANGED <<slotVars, inFlight, flights, issued, good, lapsed, used, lost,
                   bearer, attempt>>

(* The exchange settles: every caller that shares it goes on.  A request    *)
(* that was refreshing because of a 401 gives up if there is no new token.  *)
Sharing(c, f) ==
    /\ phase[c] \in {"renewing first", "renewing", "renewing again"}
    /\ inFlight = f.by

GoesOn(c, again) ==
    CASE phase[c] = "renewing first" -> "begun"
      [] phase[c] = "renewing" -> "ready"
      [] phase[c] = "renewing again" -> again

(* Mutant: only the caller who asked goes on.                               *)
Resume_AskerOnly(f, again) ==
    phase' = [c \in Callers |->
        IF c = f.by /\ Sharing(c, f) THEN GoesOn(c, again) ELSE phase[c]]

Resume(f, again) ==
    phase' = [c \in Callers |->
        IF Sharing(c, f) THEN GoesOn(c, again) ELSE phase[c]]

Renewed ==
    /\ \E f \in flights : Exchanged(f) /\ Resume(f, "ready again")
    /\ UNCHANGED <<slotVars, bearer, attempt>>

NotRenewed ==
    /\ \E f \in flights :
          /\ Resume(f, "failed")
          /\ IF \E c \in Callers : Sharing(c, f) /\ phase[c] = "renewing again"
               THEN /\ Settled(f)
                    /\ Unanswered(f)
                    /\ ClearSession
                    /\ UNCHANGED lapsed
               ELSE NotExchanged(f)
    /\ UNCHANGED <<slotVars, bearer, attempt>>

(* The caller is told.  A job gives its slot back; handleLogout clears the  *)
(* session, however its request ended.                                      *)
End(c) ==
    /\ phase[c] \in {"succeeded", "failed"}
    /\ Becomes(c, "idle")
    /\ attempt' = [attempt EXCEPT ![c] = 0]
    /\ bearer' = [bearer EXCEPT ![c] = 0]
    /\ IF c \in Jobs
         THEN Finish(c, IF phase[c] = "succeeded" THEN "done" ELSE "error")
         ELSE UNCHANGED slotVars
    /\ IF Kind[c] = "logout"
         THEN ClearSession /\ UNCHANGED <<inFlight, flights, issued, good, lapsed, used, lost>>
         ELSE UNCHANGED tokenVars

CallStep(c) ==
    \/ NoNeed(c) \/ NeedsRefresh(c) \/ Send(c)
    \/ Succeeds(c) \/ FailsForNow(c) \/ Fails(c) \/ Unauthorized(c) \/ LosesSession(c)
    \/ End(c)

Outside == UNCHANGED <<phase, bearer, attempt>>

Next ==
    \/ \E c \in Callers : (Begin(c) \/ CallStep(c))
    \/ Renewed \/ NotRenewed
    \/ (Login \/ Lapse) /\ UNCHANGED slotVars /\ Outside
    \/ Clear /\ UNCHANGED tokenVars /\ Outside
    \/ \E j \in Jobs : Enqueue(j) /\ UNCHANGED tokenVars /\ Outside

Spec == Init /\ [][Next]_vars

(* Scripts run, and every fetch and every exchange ends.                    *)
Fairness ==
    /\ \A c \in Callers : WF_vars(CallStep(c))
    /\ \A j \in Jobs : WF_vars(Begin(j))
    /\ WF_vars(Renewed \/ NotRenewed)

LiveSpec == Spec /\ Fairness

-----------------------------------------------------------------------------
(****************************************************************************)
(* Properties (SlotsExact and SingleFlight are stated with their parts).    *)
(****************************************************************************)

(* Every transfer that is queued ends, and so gives its slot to the next:   *)
(* no retry, refresh, expiry, logout or login keeps one waiting for ever.   *)
TransfersEnd == \A j \in Jobs : status[j] = "queued" ~> status[j] \in {"done", "error"}
=============================================================================
