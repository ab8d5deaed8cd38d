------------------------------ MODULE MCAccounts ------------------------------
(* Instances of Accounts for TLC: one user who was there before the         *)
(* triggers and one who signs up.                                           *)
EXTENDS Accounts
=============================================================================
