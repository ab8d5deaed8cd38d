------------------------------- MODULE Sharing -------------------------------
(****************************************************************************)
(* A public link to a file (sharing/service.py) and the downloads made with *)
(* it, which go on as those of Download.tla.  The owner creates and revokes *)
(* the link; it may expire; it may carry a download limit.  A visitor's     *)
(* request reads the link once, checks what it has read, reads the file's   *)
(* name, counts the download, and opens it: five calls, with others and the *)
(* file's deletion in between.                                              *)
(****************************************************************************)
EXTENDS Download, FiniteSets

CONSTANTS
    Visitors,       \* downloads made with the link, not signed in
    Pages,          \* those of them made by the link's page in the browser
    Limits,         \* the download limits the owner may choose
    Unlimited,      \* no limit
    MaxCount        \* bound on the downloads of a link without a limit

ASSUME SharingAssumption ==
    /\ Visitors \subseteq Downloads
    /\ IsFiniteSet(Visitors)
    /\ Visitors \intersect Owners = {}
    /\ Pages \subseteq Visitors
    /\ Limits \subseteq (Nat \ {0}) \union {Unlimited}
    /\ Unlimited \notin Nat
    /\ MaxCount \in Nat

VARIABLES
    link,       \* the link's row: none, live or gone with its file
    limit,      \* its download_limit
    revoked,    \* its revoked flag
    expired,    \* its expires_at is past
    count,      \* its download_count
    owner,      \* where create_share and revoke_share are
    shown,      \* pages whose probe has found the file
    opened,     \* streams opened for visitors (history)
    saved       \* how many of them were of the whole file (history)

linkVars == <<link, limit, revoked, expired, count>>
historyVars == <<opened, saved>>
vars == <<downloadVars, linkVars, owner, shown, historyVars>>

TypeOK ==
    /\ DownloadTypeOK
    /\ link \in {"none", "live", "gone"}
    /\ limit \in Limits \union {Unlimited}
    /\ revoked \in BOOLEAN /\ expired \in BOOLEAN
    /\ count \in Nat
    /\ owner \in {"idle", "creating", "revoking"}
    /\ shown \subseteq Pages
    /\ opened \in Nat /\ saved \in Nat

Init ==
    /\ DownloadInit
    /\ link = "none" /\ limit = Unlimited
    /\ revoked = FALSE /\ expired = FALSE /\ count = 0
    /\ owner = "idle" /\ shown = {}
    /\ opened = 0 /\ saved = 0

(****************************************************************************)
(* The owner's side.                                                        *)
(****************************************************************************)

OwnerAt(from, to) == owner = from /\ owner' = to

(* create_share: the file must be committed ...                             *)
CreateLoad ==
    /\ link = "none" /\ status = "committed"
    /\ OwnerAt("idle", "creating")
    /\ UNCHANGED <<downloadVars, linkVars, shown, historyVars>>

(* ... when it was read; the insert fails only if its row is gone.          *)
CreateInsert ==
    /\ OwnerAt("creating", "idle")
    /\ IF status = "gone" THEN UNCHANGED <<link, limit>>
       ELSE link' = "live" /\ limit' \in Limits
    /\ UNCHANGED <<downloadVars, revoked, expired, count, shown, historyVars>>

(* revoke_share: get, then update by id.                                    *)
RevokeLoad ==
    /\ link = "live"
    /\ OwnerAt("idle", "revoking")
    /\ UNCHANGED <<downloadVars, linkVars, shown, historyVars>>

RevokeWrite ==
    /\ OwnerAt("revoking", "idle")
    /\ revoked' = (revoked \/ link = "live")
    /\ UNCHANGED <<downloadVars, link, limit, expired, count, shown, historyVars>>

(* Time passes the link's expiry, if it was given one.                      *)
Expire ==
    /\ link = "live" /\ ~expired
    /\ expired' = TRUE
    /\ UNCHANGED <<downloadVars, link, limit, revoked, count, owner, shown, historyVars>>

(* The file's row goes and takes the link with it (on delete cascade).      *)
FileGone ==
    /\ RowsGone
    /\ link' = IF link = "live" THEN "gone" ELSE link
    /\ UNCHANGED <<limit, revoked, expired, count, owner, shown, historyVars>>

(****************************************************************************)
(* open_share_download.                                                     *)
(****************************************************************************)

UsedUp == limit # Unlimited /\ count >= limit

(* Visitors past the gate and not yet counted.                              *)
Admitted == {v \in Visitors : stage[v] \in {"resolved", "named"}}

(* The page asks for the first byte until it has been told of the file, and *)
(* then for the whole file; others ask for what they like.                  *)
VisitorAsks(v) ==
    IF v \notin Pages THEN Asks[v]
    ELSE IF v \in shown THEN {Whole} ELSE {Span(0, 0)}

(* Mutants of _enforce_share: the limit is checked with > instead of >=;    *)
(* expiry is not checked once the link carries a limit.                     *)
Enforced_OneMore ==
    IF revoked \/ expired THEN "refused"
    ELSE IF limit # Unlimited /\ count > limit THEN "forbidden"
    ELSE "resolved"

Enforced_ExpiryOrLimit ==
    IF revoked \/ (limit = Unlimited /\ expired) THEN "refused"
    ELSE IF UsedUp THEN "forbidden"
    ELSE "resolved"

(* _enforce_share on the row just read.                                     *)
Enforced ==
    IF revoked \/ expired THEN "refused"
    ELSE IF UsedUp THEN "forbidden"
    ELSE "resolved"

Resolve(v) ==
    /\ v \in Visitors
    /\ limit = Unlimited => count + Cardinality(Admitted) < MaxCount
    /\ \E a \in VisitorAsks(v) : ask' = [ask EXCEPT ![v] = a]
    /\ Move(v, "idle", IF link = "live" THEN Enforced ELSE "refused")
    /\ UNCHANGED <<fileVars, streamVars, linkVars, owner, shown, historyVars>>

(* The name is read from the file's row, which may be gone.                 *)
LoadName(v) ==
    /\ Move(v, "resolved", IF Live THEN "named" ELSE "refused")
    /\ UNCHANGED <<fileVars, ask, streamVars, linkVars, owner, shown, historyVars>>

(* Mutant: read and write instead of one UPDATE; of the requests admitted   *)
(* together only the last one's write is left.                              *)
Count_LostUpdate(v) ==
    /\ Move(v, "named", "loaded")
    /\ count' = IF link = "live" /\ Admitted = {v} THEN count + 1 ELSE count
    /\ UNCHANGED <<fileVars, ask, streamVars, link, limit, revoked, expired, owner, shown, historyVars>>

(* increment_share_download, one atomic UPDATE; no error if the link is     *)
(* gone.                                                                    *)
Count(v) ==
    /\ Move(v, "named", "loaded")
    /\ count' = IF link = "live" THEN count + 1 ELSE count
    /\ UNCHANGED <<fileVars, ask, streamVars, link, limit, revoked, expired, owner, shown, historyVars>>

(* storage.open_download, for visitors and owners alike.                    *)
OpenStream(d) ==
    /\ ListWhole(d) \/ ListRange(d)
    /\ opened' = IF d \in Visitors THEN opened + 1 ELSE opened
    /\ saved' = IF d \in Visitors /\ ask[d] = Whole THEN saved + 1 ELSE saved
    /\ UNCHANGED <<linkVars, owner, shown>>

(* A page whose probe was answered shows the file and its button.           *)
Restart(d) ==
    /\ Again(d)
    /\ shown' = IF d \in Pages /\ stage[d] = "done" THEN shown \union {d} ELSE shown
    /\ UNCHANGED <<linkVars, owner, historyVars>>

FileStep == UploadCommit \/ SoftDelete

DownloadStep(d) == OwnerLoad(d) \/ Open(d) \/ RangeRefused(d) \/ StreamStep(d)

Next ==
    \/ CreateLoad \/ CreateInsert \/ RevokeLoad \/ RevokeWrite \/ Expire \/ FileGone
    \/ FileStep /\ UNCHANGED <<linkVars, owner, shown, historyVars>>
    \/ \E d \in Downloads :
          \/ Resolve(d) \/ LoadName(d) \/ Count(d) \/ OpenStream(d) \/ Restart(d)
          \/ DownloadStep(d) /\ UNCHANGED <<linkVars, owner, shown, historyVars>>

Spec == Init /\ [][Next]_vars

-----------------------------------------------------------------------------
(****************************************************************************)
(* Properties.                                                              *)
(****************************************************************************)

(* No stream is opened that was not counted, even when counts overlap: the  *)
(* count is always correct (sharing/README.md 68-70).  A count may be spent *)
(* on a request that is refused afterwards.                                 *)
EveryStreamCounted == link = "live" => opened <= count

(* The gate reads the count before it is raised, so requests that overlap   *)
(* may exceed the limit together: by one less than there are of them, and   *)
(* never more (sharing/service.py 248-250).                                 *)
LimitOvershoot == limit # Unlimited => count < limit + Cardinality(Visitors)

(* Once a link is revoked, expired, used up or gone with its file, nobody   *)
(* gets past the gate any more; those already past it are let through.      *)
Shut == link = "gone" \/ revoked \/ expired \/ UsedUp

ShutStaysShut == [][Shut => Shut' /\ Admitted' \subseteq Admitted]_vars

(* A limit of n permits n downloads (sharing/README.md 47-49): the page of  *)
(* a link to a file that is there, and not empty, is turned away only when  *)
(* the file was fetched that often.                                         *)
LimitPermitsDownloads ==
    \A p \in Pages :
        stage[p] = "forbidden" /\ status = "committed" /\ size > 0 => saved >= limit
=============================================================================
