----------------------------- MODULE ClientPool -----------------------------
(****************************************************************************)
(* The pool of database clients (database/client.py).  A request borrows a  *)
(* client, sets its own token on it, and gives it back; clients that do not *)
(* fit are closed; the pool may be closed and made anew, while clients are  *)
(* out.  The pool's lock is never held across an await, so what is done     *)
(* under it is one step.                                                    *)
(****************************************************************************)
EXTENDS Integers, Sequences, FiniteSets

CONSTANTS
    Borrowers,      \* requests that may be under way at once
    Clients,        \* the clients that may ever be made
    Nobody,         \* the token of no one
    MaxIdle,        \* max_idle, 32 in the code
    MaxPools        \* bound on how often the pool is made

ASSUME PoolAssumption ==
    /\ Nobody \notin Borrowers \union Clients
    /\ MaxIdle \in Nat
    /\ MaxPools \in Nat \ {0}

VARIABLES
    pool,       \* _user_pool, 0 if there is none
    made,       \* pools made so far
    idle,       \* the idle list of each pool that was made
    closing,    \* clients taken from the list of a pool being closed
    state,      \* whether a client is unborn, open or closed
    bearer,     \* whose token is set on it
    lease,      \* where each borrower is
    client,     \* the client it has
    from        \* the pool it will go back to

poolVars == <<pool, made, idle, closing, state, bearer, lease, client, from>>

PoolIds == 1 .. MaxPools

PoolTypeOK ==
    /\ made \in 0 .. MaxPools
    /\ pool \in 0 .. made
    /\ idle \in [PoolIds -> Seq(Clients)]
    /\ closing \subseteq Clients
    /\ state \in [Clients -> {"unborn", "open", "closed"}]
    /\ bearer \in [Clients -> Borrowers \union {Nobody}]
    /\ lease \in [Borrowers -> {"none", "creating", "held", "dropping"}]
    /\ client \in [Borrowers -> Clients \union {Nobody}]
    /\ \A b \in Borrowers : lease[b] \in {"held", "dropping"} => client[b] \in Clients
    /\ from \in [Borrowers -> 0 .. made]
    /\ \A b \in Borrowers : lease[b] # "none" => from[b] # 0

PoolInit ==
    /\ pool = 0 /\ made = 0
    /\ idle = [p \in PoolIds |-> <<>>]
    /\ closing = {}
    /\ state = [c \in Clients |-> "unborn"]
    /\ bearer = [c \in Clients |-> Nobody]
    /\ lease = [b \in Borrowers |-> "none"]
    /\ client = [b \in Borrowers |-> Nobody]
    /\ from = [b \in Borrowers |-> 0]

(* _get_user_pool: the pool there is, or a new one.                         *)
ThePool(p) ==
    IF pool # 0 THEN p = pool /\ UNCHANGED <<pool, made>>
    ELSE made < MaxPools /\ p = made + 1 /\ pool' = p /\ made' = p

Last(s) == s[Len(s)]
Front(s) == SubSeq(s, 1, Len(s) - 1)

(* Mutant: the token is set on new clients only.                            *)
Borrow_TokenKept(b) ==
    /\ lease[b] = "none"
    /\ \E p \in PoolIds :
          /\ ThePool(p)
          /\ idle[p] # <<>>
          /\ client' = [client EXCEPT ![b] = Last(idle[p])]
          /\ idle' = [idle EXCEPT ![p] = Front(@)]
          /\ from' = [from EXCEPT ![b] = p]
    /\ lease' = [lease EXCEPT ![b] = "held"]
    /\ UNCHANGED <<closing, state, bearer>>

(* get_db with an idle client: taken and given the caller's token in one    *)
(* step, there being no await between acquire and auth.                     *)
Borrow(b) ==
    /\ lease[b] = "none"
    /\ \E p \in PoolIds :
          /\ ThePool(p)
          /\ idle[p] # <<>>
          /\ client' = [client EXCEPT ![b] = Last(idle[p])]
          /\ bearer' = [bearer EXCEPT ![Last(idle[p])] = b]
          /\ idle' = [idle EXCEPT ![p] = Front(@)]
          /\ from' = [from EXCEPT ![b] = p]
    /\ lease' = [lease EXCEPT ![b] = "held"]
    /\ UNCHANGED <<closing, state>>

(* With none, one is created, outside the lock ...                          *)
BorrowMiss(b) ==
    /\ lease[b] = "none"
    /\ \E p \in PoolIds :
          /\ ThePool(p)
          /\ idle[p] = <<>>
          /\ from' = [from EXCEPT ![b] = p]
    /\ lease' = [lease EXCEPT ![b] = "creating"]
    /\ UNCHANGED <<idle, closing, state, bearer, client>>

Unborn == {c \in Clients : state[c] = "unborn"}

(* ... and lent without having been in the list.                            *)
Created(b) ==
    /\ lease[b] = "creating"
    /\ Unborn # {}
    /\ LET c == CHOOSE c \in Unborn : TRUE IN
       /\ state' = [state EXCEPT ![c] = "open"]
       /\ bearer' = [bearer EXCEPT ![c] = b]
       /\ client' = [client EXCEPT ![b] = c]
    /\ lease' = [lease EXCEPT ![b] = "held"]
    /\ UNCHANGED <<pool, made, idle, closing, from>>

(* Mutant of release: a client that does not fit is dropped unclosed.       *)
Dropped_Unclosed(b) ==
    /\ lease[b] = "dropping"
    /\ lease' = [lease EXCEPT ![b] = "none"]
    /\ client' = [client EXCEPT ![b] = Nobody]
    /\ from' = [from EXCEPT ![b] = 0]
    /\ UNCHANGED <<pool, made, idle, closing, state, bearer>>

(* Database.aclose, _ClientPool.release: back to the pool it came from,     *)
(* whether or not that is still the pool.                                   *)
GiveBack(b) ==
    /\ lease[b] = "held"
    /\ Len(idle[from[b]]) < MaxIdle
    /\ idle' = [idle EXCEPT ![from[b]] = Append(@, client[b])]
    /\ lease' = [lease EXCEPT ![b] = "none"]
    /\ client' = [client EXCEPT ![b] = Nobody]
    /\ from' = [from EXCEPT ![b] = 0]
    /\ UNCHANGED <<pool, made, closing, state, bearer>>

(* The list is full: the client is closed, outside the lock.                *)
Overflow(b) ==
    /\ lease[b] = "held"
    /\ Len(idle[from[b]]) >= MaxIdle
    /\ lease' = [lease EXCEPT ![b] = "dropping"]
    /\ UNCHANGED <<pool, made, idle, closing, state, bearer, client, from>>

Dropped(b) ==
    /\ lease[b] = "dropping"
    /\ state' = [state EXCEPT ![client[b]] = "closed"]
    /\ lease' = [lease EXCEPT ![b] = "none"]
    /\ client' = [client EXCEPT ![b] = Nobody]
    /\ from' = [from EXCEPT ![b] = 0]
    /\ UNCHANGED <<pool, made, idle, closing, bearer>>

ListOf(p) == {idle[p][i] : i \in DOMAIN idle[p]}

(* close_db_pool: the list is taken over and its clients are closed one by  *)
(* one; until that is done the pool is still the pool.                      *)
CloseStart ==
    /\ pool # 0 /\ closing = {}
    /\ closing' = ListOf(pool)
    /\ idle' = [idle EXCEPT ![pool] = <<>>]
    /\ pool' = IF idle[pool] = <<>> THEN 0 ELSE pool
    /\ UNCHANGED <<made, state, bearer, lease, client, from>>

CloseOne(c) ==
    /\ c \in closing
    /\ state' = [state EXCEPT ![c] = "closed"]
    /\ closing' = closing \ {c}
    /\ pool' = IF closing = {c} THEN 0 ELSE pool
    /\ UNCHANGED <<made, idle, bearer, lease, client, from>>

LeaseStep(b) ==
    \/ Borrow(b) \/ BorrowMiss(b) \/ Created(b)
    \/ GiveBack(b) \/ Overflow(b) \/ Dropped(b)

CloseStep == CloseStart \/ \E c \in Clients : CloseOne(c)

PoolNext == CloseStep \/ \E b \in Borrowers : LeaseStep(b)

PoolSpec == PoolInit /\ [][PoolNext]_poolVars

-----------------------------------------------------------------------------
(****************************************************************************)
(* Properties.                                                              *)
(****************************************************************************)

Has(b) == lease[b] \in {"held", "dropping"}

(* A client is in one place: with one borrower, or once in the list of one  *)
(* pool, or about to be closed (database/client.py 103-104).                *)
Exclusive ==
    /\ \A a, b \in Borrowers : Has(a) /\ Has(b) /\ client[a] = client[b] => a = b
    /\ \A p \in PoolIds : \A i \in DOMAIN idle[p] :
          /\ \A b \in Borrowers : Has(b) => client[b] # idle[p][i]
          /\ \A q \in PoolIds : \A j \in DOMAIN idle[q] :
                idle[p][i] = idle[q][j] => p = q /\ i = j
          /\ idle[p][i] \notin closing
    /\ \A b \in Borrowers : Has(b) => client[b] \notin closing

(* While a request has a client, that client is open and acts with that     *)
(* request's token (database/client.py 186-188).                            *)
ActsForHolder ==
    \A b \in Borrowers : lease[b] = "held" =>
        bearer[client[b]] = b /\ state[client[b]] = "open"

(* No connection is lost: an open client is with a borrower, in a list, or  *)
(* about to be closed.  The list may be that of a pool which was closed and *)
(* forgotten while the client was out (database/client.py 169-174).         *)
NoneLost ==
    \A c \in Clients : state[c] = "open" =>
        \/ \E b \in Borrowers : Has(b) /\ client[b] = c
        \/ \E p \in PoolIds : c \in ListOf(p)
        \/ c \in closing
=============================================================================
