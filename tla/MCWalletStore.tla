--------------------------- MODULE MCWalletStore ---------------------------
(* Bounds for TLC: a right and a wrong password, the default account and one    *)
(* other, and room in the list for every address to be loaded three times.      *)
EXTENDS WalletStore
CONSTANTS a1, a2, p1, p2, none, absent, blank
MCAccounts == {a1, a2}
MCPasswords == {p1, p2}
MCMaxListed == 2
=============================================================================
