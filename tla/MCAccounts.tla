------------------------------- MODULE MCAccounts -------------------------------
(* One address, which two requests may register, log in to and close; limits   *)
(* scaled: two failures lock the account for one tick, a token lives for one.  *)
EXTENDS Accounts, TLC

Symmetry == Permutations(Request) \union Permutations(Password)
=============================================================================
