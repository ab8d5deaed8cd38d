------------------------------ MODULE RateLimit ------------------------------
(****************************************************************************)
(* The sliding-window limiter (rate_limit/limiter.py and the script of      *)
(* rate_limit/redis_client.py) and its callers: the request middleware,     *)
(* which spends from its user's bucket and lets a request pass when Redis   *)
(* is down, and the Telegram transport, which spends from the bot's bucket  *)
(* and, for what posts to a channel, from the channel's as well.            *)
(* A caller reads its clock and then sends the script: other callers'       *)
(* scripts may run in between, and theirs may have been stamped later.      *)
(****************************************************************************)
EXTENDS Integers, Sequences, FiniteSets

CONSTANTS
    Calls,      \* the calls, each made once
    Kind,       \* what each is: a request, a stream, or a send
    Needs,      \* the buckets each spends from, in order
    Buckets,    \* user:, bot: and channel: keys
    Limit,      \* how many actions each bucket allows ...
    Window,     \* ... in how much time
    MaxDelay,   \* the longest time from reading the clock to the script's run
    MaxTime     \* bound on the clock

ASSUME RateAssumption ==
    /\ Kind \in [Calls -> {"request", "stream", "send"}]
    /\ Needs \in [Calls -> Seq(Buckets)]
    /\ \A c \in Calls : Needs[c] # <<>>
    /\ Limit \in [Buckets -> Nat \ {0}]
    /\ Window \in [Buckets -> Nat \ {0}]
    /\ MaxDelay \in Nat
    /\ MaxTime \in Nat

VARIABLES
    now,        \* the time
    log,        \* the sorted set of each bucket
    expires,    \* when Redis drops it
    stage,      \* where each call is
    step,       \* the bucket it is at, an index into Needs
    stamp,      \* the time it read
    allowed,    \* whether all buckets so far let it pass
    outcome,    \* what became of it
    grants      \* every action a bucket has allowed (history)

vars == <<now, log, expires, stage, step, stamp, allowed, outcome, grants>>

(* A member of a sorted set: its caller, its score, and (for the properties *)
(* alone) when the script recorded it.                                      *)
Members == [by : Calls, score : Nat, at : Nat]

TypeOK ==
    /\ now \in 0 .. MaxTime
    /\ log \in [Buckets -> SUBSET Members]
    /\ expires \in [Buckets -> Nat]
    /\ stage \in [Calls -> {"before", "sent", "done"}]
    /\ step \in [Calls -> Nat \ {0}]
    /\ \A c \in Calls : step[c] <= Len(Needs[c])
    /\ stamp \in [Calls -> 0 .. now]
    /\ allowed \in [Calls -> BOOLEAN]
    /\ outcome \in [Calls -> {"none", "acted", "open", "refused", "queued", "failed"}]
    /\ grants \in [Buckets -> SUBSET Members]

Init ==
    /\ now = 0
    /\ log = [k \in Buckets |-> {}]
    /\ expires = [k \in Buckets |-> 0]
    /\ stage = [c \in Calls |-> "before"]
    /\ step = [c \in Calls |-> 1]
    /\ stamp = [c \in Calls |-> 0]
    /\ allowed = [c \in Calls |-> TRUE]
    /\ outcome = [c \in Calls |-> "none"]
    /\ grants = [k \in Buckets |-> {}]

Tick ==
    /\ now < MaxTime
    /\ \A c \in Calls : stage[c] = "sent" => now < stamp[c] + MaxDelay
    /\ now' = now + 1
    /\ UNCHANGED <<log, expires, stage, step, stamp, allowed, outcome, grants>>

(* RateLimiter.check: the clock is read, then the script is sent.           *)
ReadClock(c) ==
    /\ stage[c] = "before"
    /\ stamp' = [stamp EXCEPT ![c] = now]
    /\ stage' = [stage EXCEPT ![c] = "sent"]
    /\ UNCHANGED <<now, log, expires, step, allowed, outcome, grants>>

Bucket(c) == Needs[c][step[c]]

(* What the key holds: nothing once it has expired.                         *)
Alive(k) == IF now <= expires[k] THEN log[k] ELSE {}

(* Mutant: entries never age out.                                           *)
Trimmed_Never(k, time) == Alive(k)

(* ZREMRANGEBYSCORE: what is left of the window that ends at a time.        *)
Trimmed(k, time) == {e \in Alive(k) : e.score > time - Window[k]}

Room(k, time) == Cardinality(Trimmed(k, time)) < Limit[k]

(* The script, as one step of Redis: it trims, counts, and records the      *)
(* action if there is room.                                                 *)
Script(c) ==
    LET k == Bucket(c)
        e == [by |-> c, score |-> stamp[c], at |-> now]
        left == Trimmed(k, stamp[c])
    IN  IF Room(k, stamp[c])
          THEN /\ log' = [log EXCEPT ![k] = left \union {e}]
               /\ expires' = [expires EXCEPT ![k] = now + Window[k]]
               /\ grants' = [grants EXCEPT ![k] = @ \union {e}]
          ELSE /\ log' = [log EXCEPT ![k] = left]
               /\ UNCHANGED <<expires, grants>>

(* dispatch answers 429; _spend_budget queues the job and raises;           *)
(* get_file_stream raises.                                                  *)
Denied(c) == IF Kind[c] = "send" THEN "queued" ELSE "refused"

(* Mutant: the answer of the last bucket decides.                           *)
Verdict_LastOnly(c) == Room(Bucket(c), stamp[c])

(* bot_ok and channel_ok.                                                   *)
Verdict(c) == allowed[c] /\ Room(Bucket(c), stamp[c])

More(c) == step[c] < Len(Needs[c])

(* The script ran and its answer came.  A bucket that refuses does not keep *)
(* the next from being asked.                                               *)
Checked(c) ==
    /\ stage[c] = "sent"
    /\ Script(c)
    /\ allowed' = [allowed EXCEPT ![c] = Verdict(c)]
    /\ IF More(c)
         THEN /\ step' = [step EXCEPT ![c] = @ + 1]
              /\ stage' = [stage EXCEPT ![c] = "before"]
              /\ UNCHANGED outcome
         ELSE /\ outcome' = [outcome EXCEPT ![c] =
                                IF Verdict(c) THEN "acted" ELSE Denied(c)]
              /\ stage' = [stage EXCEPT ![c] = "done"]
              /\ UNCHANGED step
    /\ UNCHANGED <<now, stamp>>

(* command raised TeleCloudError, its script run or not: the middleware     *)
(* lets the request pass, the transport lets the error through.             *)
Unavailable(c) ==
    /\ stage[c] = "sent"
    /\ Script(c) \/ UNCHANGED <<log, expires, grants>>
    /\ outcome' = [outcome EXCEPT ![c] = IF Kind[c] = "request" THEN "open" ELSE "failed"]
    /\ stage' = [stage EXCEPT ![c] = "done"]
    /\ UNCHANGED <<now, step, stamp, allowed>>

Next == Tick \/ \E c \in Calls : ReadClock(c) \/ Checked(c) \/ Unavailable(c)

Spec == Init /\ [][Next]_vars

-----------------------------------------------------------------------------
(****************************************************************************)
(* Properties.                                                              *)
(****************************************************************************)

Within(k, time, span) ==
    {e \in grants[k] : time - span < e.at /\ e.at <= time}

(* No stretch of time shorter than the window by the longest delay holds    *)
(* more than the limit of a bucket's actions.                               *)
LimitKept ==
    \A k \in Buckets : \A time \in 0 .. now :
        Cardinality(Within(k, time, Window[k] - MaxDelay)) <= Limit[k]

(* A call that acts has spent from every bucket it needs.                   *)
Paid(c) == \A i \in DOMAIN Needs[c] : \E e \in grants[Needs[c][i]] : e.by = c

(* However the scripts of concurrent callers overtake each other and        *)
(* whatever else fails between two buckets, what reaches Telegram, or a     *)
(* handler, stays within the limits of all its buckets (limiter.py 1-17,    *)
(* telegram/transport.py 185-207).                                          *)
BudgetKept == LimitKept /\ \A c \in Calls : outcome[c] = "acted" => Paid(c)

(* A call is turned away only if the limit was really used up in the window *)
(* that ends at the time it read, or since: what is refused is not recorded *)
(* and takes nobody's place (limiter.py 64-65).                             *)
RefusedOnlyWhenFull ==
    [][\A c \in Calls : allowed[c] /\ ~allowed'[c] =>
          LET k == Bucket(c) IN
          Cardinality({e \in grants[k] : e.score > stamp[c] - Window[k]}) >= Limit[k]]_vars
=============================================================================
