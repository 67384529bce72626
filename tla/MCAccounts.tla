----------------------------- MODULE MCAccounts -----------------------------
(* Accounts on small instances.  Users and requests are interchangeable.   *)
EXTENDS Accounts, TLC

Symmetry == Permutations(Users) \cup Permutations(Requests) \cup Permutations(Browsers)
=============================================================================
