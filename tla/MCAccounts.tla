------------------------------- MODULE MCAccounts -------------------------------
(* The instance of Accounts for TLC: three addresses, one of them in two spellings. *)
EXTENDS Accounts, TLC

CONSTANTS c1, c2, i1, i2, m1, m1upper, m2, m3, none

MCNormal == m1 :> m1 @@ m1upper :> m1 @@ m2 :> m2 @@ m3 :> m3

AccountSymmetry == Permutations(Clients) \union Permutations(Ids)
=================================================================================
