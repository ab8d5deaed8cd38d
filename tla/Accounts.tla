------------------------------- MODULE Accounts -------------------------------
(****************************************************************************)
(* Accounts: the users Supabase keeps, the profile row of each, the mail    *)
(* that confirms an address, and logins (auth/service.py over               *)
(* auth/supabase_auth.py, profiles_repo, and the triggers of migration      *)
(* 0005).                                                                   *)
(*                                                                          *)
(* The profile is a copy of what Supabase knows: a trigger makes its row    *)
(* with the user, a second one copies the confirmation.  A login reads the  *)
(* row and inserts it where it is missing, in two calls, while users are    *)
(* confirmed and removed.  Tokens and the keys that sign them are in        *)
(* KeyCache.tla, the uploads that verified gates in Quota.tla.              *)
(****************************************************************************)
EXTENDS FiniteSets

CONSTANTS
    Users,          \* the users that will ever be (auth.users.id)
    Early,          \* those there before the triggers were, and left without
                    \* a profile (a signup whose insert failed)
    Logins,         \* login requests, each of one user
    Confirming      \* what the project's "Confirm email" switch may be set to

ASSUME AccountAssumption ==
    /\ Early \subseteq Users
    /\ Confirming \subseteq BOOLEAN

VARIABLES
    user,           \* auth.users: "absent", "unconfirmed", "confirmed" or "removed"
    profile,        \* profiles: "none", "unverified" or "verified"
    links,          \* the users with a working confirmation link in their mailbox
    login,          \* where each login is
    whose,          \* whom it signed in
    session,        \* its session at Supabase: "none", "live" or "revoked"
    holds,          \* whether the client has its tokens
    flag            \* the email_verified it was last sent

accountVars == <<user, profile, links, login, whose, session, holds, flag>>

LoginSteps == {"idle", "find", "insert", "found", "created", "conflict", "died"}

AccountTypeOK ==
    /\ user \in [Users -> {"absent", "unconfirmed", "confirmed", "removed"}]
    /\ profile \in [Users -> {"none", "unverified", "verified"}]
    /\ links \subseteq Users
    /\ login \in [Logins -> LoginSteps]
    /\ whose \in [Logins -> Users]
    /\ session \in [Logins -> {"none", "live", "revoked"}]
    /\ holds \in [Logins -> BOOLEAN]
    /\ flag \in [Logins -> BOOLEAN]

AccountInit ==
    /\ user \in [Users -> {"absent", "unconfirmed", "confirmed"}]
    /\ \A u \in Users : user[u] # "absent" <=> u \in Early
    /\ profile = [u \in Users |-> "none"]
    /\ links = {u \in Early : user[u] = "unconfirmed"}
    /\ login = [l \in Logins |-> "idle"]
    /\ whose \in [Logins -> Users]
    /\ session = [l \in Logins |-> "none"]
    /\ holds = [l \in Logins |-> FALSE]
    /\ flag = [l \in Logins |-> FALSE]

-----------------------------------------------------------------------------
(****************************************************************************)
(* The user and the mail.                                                   *)
(****************************************************************************)

(* handle_new_user: the shell that goes in with the user, unless there is   *)
(* one.                                                                     *)
Shell(u, verified) ==
    profile' = IF profile[u] # "none" THEN profile
               ELSE [profile EXCEPT ![u] = IF verified THEN "verified" ELSE "unverified"]

(* signup: the user is inserted, confirmed at once if the project asks for  *)
(* no confirmation, and is mailed a link otherwise.                         *)
SignUp(u) ==
    /\ user[u] = "absent"
    /\ \E confirm \in Confirming :
          IF confirm
          THEN /\ user' = [user EXCEPT ![u] = "unconfirmed"]
               /\ Shell(u, FALSE)
               /\ links' = links \union {u}
          ELSE /\ user' = [user EXCEPT ![u] = "confirmed"]
               /\ Shell(u, TRUE)
               /\ UNCHANGED links
    /\ UNCHANGED <<login, whose, session, holds, flag>>

(* Mutant: the second trigger is not there.                                 *)
Confirm_NotMirrored(u) ==
    /\ u \in links
    /\ user' = [user EXCEPT ![u] = "confirmed"]
    /\ links' = links \ {u}
    /\ UNCHANGED <<profile, login, whose, session, holds, flag>>

(* The user follows the link; sync_email_verified updates the row if there  *)
(* is one.                                                                  *)
Confirm(u) ==
    /\ u \in links
    /\ user' = [user EXCEPT ![u] = "confirmed"]
    /\ profile' = IF profile[u] = "none" THEN profile
                  ELSE [profile EXCEPT ![u] = "verified"]
    /\ links' = links \ {u}
    /\ UNCHANGED <<login, whose, session, holds, flag>>

(* The link's time is over.                                                 *)
Expire(u) ==
    /\ u \in links
    /\ links' = links \ {u}
    /\ UNCHANGED <<user, profile, login, whose, session, holds, flag>>

(* The user is deleted at Supabase: the row and the sessions go with it.    *)
Remove(u) ==
    /\ user[u] \in {"unconfirmed", "confirmed"}
    /\ user' = [user EXCEPT ![u] = "removed"]
    /\ profile' = [profile EXCEPT ![u] = "none"]
    /\ links' = links \ {u}
    /\ session' = [l \in Logins |-> IF whose[l] = u /\ session[l] = "live"
                                    THEN "revoked" ELSE session[l]]
    /\ UNCHANGED <<login, whose, holds, flag>>

(* resend_confirmation: Supabase sends a link to whoever still needs one,   *)
(* unless it is over a limit or fails.                                      *)
Resend(u) ==
    /\ user[u] = "unconfirmed"
    /\ links' = links \union {u}
    /\ UNCHANGED <<user, profile, login, whose, session, holds, flag>>

-----------------------------------------------------------------------------
(****************************************************************************)
(* Logins.                                                                  *)
(****************************************************************************)

(* sign_in: Supabase signs in confirmed users only.                         *)
SignIn(l) ==
    /\ login[l] = "idle"
    /\ user[whose[l]] = "confirmed"
    /\ login' = [login EXCEPT ![l] = "find"]
    /\ session' = [session EXCEPT ![l] = "live"]
    /\ UNCHANGED <<user, profile, links, whose, holds, flag>>

(* The response with the session and the flag.                              *)
Answer(l, how, verified) ==
    /\ login' = [login EXCEPT ![l] = how]
    /\ holds' = [holds EXCEPT ![l] = TRUE]
    /\ flag' = [flag EXCEPT ![l] = verified]

(* Mutant: the shell is inserted without a look.                            *)
FindProfile_Blind(l) ==
    /\ login[l] = "find"
    /\ login' = [login EXCEPT ![l] = "insert"]
    /\ UNCHANGED <<user, profile, links, whose, session, holds, flag>>

(* Mutant: whoever could sign in is confirmed, so the row need not be read. *)
FindProfile_FromSession(l) ==
    /\ login[l] = "find"
    /\ IF profile[whose[l]] = "none"
       THEN login' = [login EXCEPT ![l] = "insert"] /\ UNCHANGED <<holds, flag>>
       ELSE Answer(l, "found", TRUE)
    /\ UNCHANGED <<user, profile, links, whose, session>>

(* _ensure_profile, first call: the row answers the login, or is missing.   *)
FindProfile(l) ==
    /\ login[l] = "find"
    /\ IF profile[whose[l]] = "none"
       THEN login' = [login EXCEPT ![l] = "insert"] /\ UNCHANGED <<holds, flag>>
       ELSE Answer(l, "found", profile[whose[l]] = "verified")
    /\ UNCHANGED <<user, profile, links, whose, session>>

(* The row can go in: its user exists, and no other login was faster.       *)
Insertable(u) == user[u] = "confirmed" /\ profile[u] = "none"

(* Second call: an unverified shell, or the database refuses a second row   *)
(* of the user or a row of nobody, and the login fails.                     *)
InsertProfile(l) ==
    /\ login[l] = "insert"
    /\ IF Insertable(whose[l])
       THEN /\ profile' = [profile EXCEPT ![whose[l]] = "unverified"]
            /\ Answer(l, "created", FALSE)
       ELSE login' = [login EXCEPT ![l] = "conflict"] /\ UNCHANGED <<profile, holds, flag>>
    /\ UNCHANGED <<user, links, whose, session>>

(* A call fails, or its reply is lost, and the insert may have been made.   *)
LoginDies(l) ==
    /\ login[l] \in {"find", "insert"}
    /\ login' = [login EXCEPT ![l] = "died"]
    /\ \/ UNCHANGED profile
       \/ /\ login[l] = "insert" /\ Insertable(whose[l])
          /\ profile' = [profile EXCEPT ![whose[l]] = "unverified"]
    /\ UNCHANGED <<user, links, whose, session, holds, flag>>

(* get_profile: the flag is read again, if the row is still there.          *)
ReadProfile(l) ==
    /\ holds[l]
    /\ profile[whose[l]] # "none"
    /\ flag' = [flag EXCEPT ![l] = (profile[whose[l]] = "verified")]
    /\ UNCHANGED <<user, profile, links, login, whose, session, holds>>

(* logout: the client drops its tokens; the session is revoked if it sent a *)
(* refresh token and Supabase answered.                                     *)
Logout(l) ==
    /\ holds[l]
    /\ holds' = [holds EXCEPT ![l] = FALSE]
    /\ session' \in {session, [session EXCEPT ![l] = "revoked"]}
    /\ UNCHANGED <<user, profile, links, login, whose, flag>>

AccountStep(u) == SignUp(u) \/ Confirm(u) \/ Expire(u) \/ Remove(u) \/ Resend(u)

LoginStep(l) ==
    \/ SignIn(l) \/ FindProfile(l) \/ InsertProfile(l) \/ LoginDies(l)
    \/ ReadProfile(l) \/ Logout(l)

AccountNext == (\E u \in Users : AccountStep(u)) \/ \E l \in Logins : LoginStep(l)

AccountSpec == AccountInit /\ [][AccountNext]_accountVars

-----------------------------------------------------------------------------
(****************************************************************************)
(* Properties.                                                              *)
(****************************************************************************)

InSync(u) ==
    /\ user[u] = "unconfirmed" => profile[u] = "unverified"
    /\ user[u] = "confirmed"   => profile[u] = "verified"
    /\ user[u] \in {"absent", "removed"} => profile[u] = "none"

(* The profile of every user that came after the triggers says at any time  *)
(* what Supabase knows of the address, whatever logins do meanwhile.        *)
SyncedSinceTriggers == \A u \in Users \ Early : InSync(u)

(* A session is never told more than the row says: no login and no trigger  *)
(* takes a verification back.                                               *)
NeverToldTooMuch ==
    \A l \in Logins : flag[l] => profile[whose[l]] = "verified" \/ user[whose[l]] = "removed"

(* A login that has its session fails for its profile only if its user was  *)
(* removed meanwhile or another login of that user made the row.            *)
ConflictOnlyIfRaced ==
    \A l \in Logins : login[l] = "conflict" =>
        \/ user[whose[l]] = "removed"
        \/ \E k \in Logins \ {l} : whose[k] = whose[l] /\ login[k] \in {"created", "died"}
=============================================================================
