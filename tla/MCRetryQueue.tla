---------------------------- MODULE MCRetryQueue ----------------------------
(* The instance of RetryQueue for TLC: a delete and a send, two drains.     *)
EXTENDS RetryQueue
=============================================================================
