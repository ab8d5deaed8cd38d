------------------------------ MODULE KeyCache ------------------------------
(****************************************************************************)
(* The cache of Supabase's signing keys (auth/tokens.py): a token names its *)
(* key; a key that is not cached is looked for in a fresh copy of the       *)
(* published set, by one request at a time.  Supabase publishes new sets    *)
(* whenever it likes, and the fetch may fail.                               *)
(****************************************************************************)
EXTENDS Integers, Sequences

CONSTANTS
    Requests,       \* requests that may be under way at once
    Keys,           \* signing keys
    Kid,            \* the key that signed the token of each request
    Shared,         \* the shared secret, which is no published key (HS256)
    Published       \* the sets of keys Supabase publishes, one after the other

ASSUME KeyAssumption ==
    /\ Shared \notin Keys
    /\ Kid \in [Requests -> Keys \union {Shared}]
    /\ Published \in Seq(SUBSET Keys)
    /\ Len(Published) > 0

VARIABLES
    version,        \* the set that is published now
    cache,          \* the keys in _jwks_cache
    copied,         \* the set the cache was last copied from, 0 if none (history)
    verify,         \* where the verification of each request is
    since,          \* the set that was published when it began (history)
    queue,          \* _jwks_lock: its holder and those waiting for it, in order
    answer          \* the set each was sent

keyVars == <<version, cache, copied, verify, since, queue, answer>>

KeyTypeOK ==
    /\ version \in DOMAIN Published
    /\ copied \in 0 .. version
    /\ cache = IF copied = 0 THEN {} ELSE Published[copied]
    /\ verify \in [Requests -> {"idle", "lookup", "waiting", "fetching", "answered",
                                "verified", "unknown", "unavailable"}]
    /\ since \in [Requests -> 1 .. version]
    /\ queue \in Seq(Requests)
    /\ answer \in [Requests -> 1 .. version]

KeyInit ==
    /\ version = 1
    /\ cache = {} /\ copied = 0
    /\ verify = [r \in Requests |-> "idle"]
    /\ since = [r \in Requests |-> 1]
    /\ queue = <<>>
    /\ answer = [r \in Requests |-> 1]

(* Supabase publishes its next set of keys.                                 *)
Rotate ==
    /\ version < Len(Published)
    /\ version' = version + 1
    /\ UNCHANGED <<cache, copied, verify, since, queue, answer>>

(* A request's verification goes on, with the others as they are.           *)
Verify(r, from, to) == verify[r] = from /\ verify' = [verify EXCEPT ![r] = to]

Arrive(r) ==
    /\ Verify(r, "idle", "lookup")
    /\ since' = [since EXCEPT ![r] = version]
    /\ UNCHANGED <<version, cache, copied, queue, answer>>

(* The shared secret is at hand, and so is a key that is cached: no lock.   *)
Hit(r) ==
    /\ Kid[r] \in cache \union {Shared}
    /\ Verify(r, "lookup", "verified")
    /\ UNCHANGED <<version, cache, copied, since, queue, answer>>

Miss(r) ==
    /\ Kid[r] \notin cache \union {Shared}
    /\ Verify(r, "lookup", "waiting")
    /\ queue' = Append(queue, r)
    /\ UNCHANGED <<version, cache, copied, since, answer>>

Holds(r) == queue # <<>> /\ Head(queue) = r

(* Mutants: a request that had to wait takes the cache as it is now; those  *)
(* who wait do not wait for the lock.                                       *)
Recheck_NoRefetch(r) ==
    /\ Holds(r)
    /\ IF Kid[r] \in cache
       THEN Verify(r, "waiting", "verified") /\ queue' = Tail(queue)
       ELSE IF copied = 0
       THEN Verify(r, "waiting", "fetching") /\ UNCHANGED queue
       ELSE Verify(r, "waiting", "unknown") /\ queue' = Tail(queue)
    /\ UNCHANGED <<version, cache, copied, since, answer>>

Recheck_NoLock(r) ==
    /\ Verify(r, "waiting", "fetching")
    /\ UNCHANGED <<version, cache, copied, since, queue, answer>>

(* The lock's holder looks again: another may have fetched the key.         *)
Recheck(r) ==
    /\ Holds(r)
    /\ IF Kid[r] \in cache
       THEN Verify(r, "waiting", "verified") /\ queue' = Tail(queue)
       ELSE Verify(r, "waiting", "fetching") /\ UNCHANGED queue
    /\ UNCHANGED <<version, cache, copied, since, answer>>

(* Supabase answers with what is published at that moment ...               *)
FetchAnswered(r) ==
    /\ Verify(r, "fetching", "answered")
    /\ answer' = [answer EXCEPT ![r] = version]
    /\ UNCHANGED <<version, cache, copied, since, queue>>

(* Mutant: the lock is kept when the fetch fails.                           *)
FetchFails_LockKept(r) ==
    /\ Verify(r, "fetching", "unavailable")
    /\ UNCHANGED <<version, cache, copied, since, queue, answer>>

(* ... or the fetch fails or times out, and the token is refused.           *)
FetchFails(r) ==
    /\ Verify(r, "fetching", "unavailable")
    /\ queue' = Tail(queue)
    /\ UNCHANGED <<version, cache, copied, since, answer>>

(* Mutant: keys that were withdrawn stay.                                   *)
Replace_Merge(r) ==
    /\ Verify(r, "answered", IF Kid[r] \in Published[answer[r]] THEN "verified" ELSE "unknown")
    /\ cache' = cache \union Published[answer[r]] /\ copied' = answer[r]
    /\ answer' = [answer EXCEPT ![r] = 1]
    /\ queue' = Tail(queue)
    /\ UNCHANGED <<version, since>>

(* The cache becomes the set that came, in one step, and the lock is free.  *)
Replace(r) ==
    /\ Verify(r, "answered", IF Kid[r] \in Published[answer[r]] THEN "verified" ELSE "unknown")
    /\ cache' = Published[answer[r]] /\ copied' = answer[r]
    /\ answer' = [answer EXCEPT ![r] = 1]
    /\ queue' = Tail(queue)
    /\ UNCHANGED <<version, since>>

(* The response is sent, and the client may make another request.           *)
Answered(r) ==
    /\ verify[r] \in {"verified", "unknown", "unavailable"}
    /\ verify' = [verify EXCEPT ![r] = "idle"]
    /\ since' = [since EXCEPT ![r] = 1]
    /\ UNCHANGED <<version, cache, copied, queue, answer>>

KeyStep(r) ==
    Hit(r) \/ Miss(r) \/ Recheck(r) \/ FetchAnswered(r) \/ FetchFails(r) \/ Replace(r)

KeyNext == Rotate \/ \E r \in Requests : Arrive(r) \/ KeyStep(r) \/ Answered(r)

KeySpec == KeyInit /\ [][KeyNext]_keyVars

-----------------------------------------------------------------------------
(****************************************************************************)
(* Properties.                                                              *)
(****************************************************************************)

(* A set that was published earlier never replaces a later one, although    *)
(* answers take their time (auth/tokens.py 172-177).                        *)
CacheNeverOlder == [][copied' >= copied]_keyVars

(* A token is refused for an unknown key only if that key was not published *)
(* at some moment since the request came: no request is refused on account  *)
(* of what another one has fetched before (auth/tokens.py 168, 173-177).    *)
Unpublished(r) == \E v \in since[r] .. version : Kid[r] \notin Published[v]

NoFalseRefusal ==
    [][\A r \in Requests : verify'[r] = "unknown" /\ verify[r] # "unknown" => Unpublished(r)]_keyVars

(* Every token is verified or refused in the end; the fetch has a timeout   *)
(* and the lock is handed on in order.                                      *)
Decided == \A r \in Requests :
    verify[r] = "lookup" ~> verify[r] \in {"verified", "unknown", "unavailable"}
=============================================================================
