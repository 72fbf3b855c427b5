----------------------------- MODULE MCAccounts -----------------------------
(* A small instance of Accounts for TLC.                                   *)
EXTENDS Accounts, TLC

\* A request may be any request; it also names what it creates.
Symmetry == Permutations(Requests) \cup Permutations(Identities)
=============================================================================
