---------------------------- MODULE MCRateLimit ----------------------------
(* An instance of RateLimit for TLC: requests of one user, and streams and  *)
(* sends through one bot into one channel, with a shorter window for the    *)
(* bot than for the channel.                                                *)
EXTENDS RateLimit, TLC

CONSTANTS a1, a2, b1, b2, b3, b4, user, bot, channel

KindOf == [c \in Calls |-> CASE c \in {a1, a2} -> "request"
                             [] c = b1 -> "stream"
                             [] OTHER -> "send"]
NeedsOf == [c \in Calls |-> CASE c \in {a1, a2} -> <<user>>
                              [] c = b1 -> <<bot>>
                              [] OTHER -> <<bot, channel>>]
Limits == [k \in Buckets |-> IF k = bot THEN 2 ELSE 1]
Windows == [k \in Buckets |-> IF k = bot THEN 2 ELSE 3]
Alike == Permutations({a1, a2} \intersect Calls) \union Permutations({b2, b3, b4} \intersect Calls)
=============================================================================
